---------------------------- MODULE Spec2Model ----------------------------
(***************************************************************************)
(* Model of the DotBot desktop GUI agent                                   *)
(* (local-agent/src/tools/gui/desktop/gui_agent.py): the window resolver   *)
(* find_window, the session cache, the SmartNavigator cascade smart_find,  *)
(* the tool dispatcher and the daemon loop.                                *)
(*                                                                         *)
(* Strings are sequences of one-character strings, so that lower(),        *)
(* strip(), split(), "in", startswith() and difflib's SequenceMatcher      *)
(* are computed as Python computes them.                                   *)
(***************************************************************************)
EXTENDS Integers, Sequences, FiniteSets, TLC

(***************************************************************************)
(* Python string primitives                                                *)
(***************************************************************************)

\* str.lower() on one character of the model's alphabet
LowerChar(c) ==
    CASE c = "A" -> "a"
      [] c = "B" -> "b"
      [] c = "C" -> "c"
      [] c = "S" -> "s"
      [] OTHER -> c

\* str.lower()
Lower(s) == [i \in 1..Len(s) |-> LowerChar(s[i])]

\* str.strip(): drop leading and trailing blanks
Strip(s) ==
    LET idx == {i \in 1..Len(s) : s[i] # " "}
    IN  IF idx = {} THEN <<>>
        ELSE LET lo == CHOOSE i \in idx : \A j \in idx : i <= j
                 hi == CHOOSE i \in idx : \A j \in idx : i >= j
             IN  SubSeq(s, lo, hi)

\* str.split(): the maximal runs of non-blank characters, in order
RECURSIVE SplitFrom(_, _, _)
SplitFrom(s, i, cur) ==
    IF i > Len(s) THEN (IF cur = <<>> THEN <<>> ELSE <<cur>>)
    ELSE IF s[i] = " "
         THEN (IF cur = <<>> THEN <<>> ELSE <<cur>>) \o SplitFrom(s, i + 1, <<>>)
         ELSE SplitFrom(s, i + 1, Append(cur, s[i]))

Split(s) == SplitFrom(s, 1, <<>>)

\* the Python expression  needle in hay
Contains(needle, hay) ==
    \E i \in 1..(Len(hay) - Len(needle) + 1) :
        SubSeq(hay, i, i + Len(needle) - 1) = needle

\* str.startswith()
StartsWith(s, p) == Len(p) <= Len(s) /\ SubSeq(s, 1, Len(p)) = p

\* str.replace(" ", r) for a replacement r of length 0 or 1
RECURSIVE ReplaceBlank(_, _)
ReplaceBlank(s, r) ==
    IF s = <<>> THEN <<>>
    ELSE (IF Head(s) = " " THEN r ELSE <<Head(s)>>) \o ReplaceBlank(Tail(s), r)

(***************************************************************************)
(* difflib.SequenceMatcher(None, a, b).ratio(): Ratcliff/Obershelp.        *)
(* Positions are 1-based; a block is the half-open range [lo, hi).        *)
(***************************************************************************)

\* length of the common run of a from i and b from j inside the two ranges
RECURSIVE RunLen(_, _, _, _, _, _)
RunLen(a, i, ahi, b, j, bhi) ==
    IF i < ahi /\ j < bhi /\ a[i] = b[j]
    THEN 1 + RunLen(a, i + 1, ahi, b, j + 1, bhi)
    ELSE 0

\* find_longest_match: the longest block, of those the one starting earliest
\* in a, and of those the one starting earliest in b
FindLongestMatch(a, alo, ahi, b, blo, bhi) ==
    LET cands == {<<i, j>> : i \in alo..(ahi - 1), j \in blo..(bhi - 1)}
        len(p) == RunLen(a, p[1], ahi, b, p[2], bhi)
        best == CHOOSE p \in cands :
                    \A q \in cands :
                        \/ len(p) > len(q)
                        \/ /\ len(p) = len(q)
                           /\ \/ p[1] < q[1]
                              \/ p[1] = q[1] /\ p[2] <= q[2]
    IN  IF cands = {} THEN <<alo, blo, 0>>
        ELSE <<best[1], best[2], len(best)>>

\* get_matching_blocks: total size of the blocks found by recursing to the
\* left and to the right of the longest block
RECURSIVE MatchCount(_, _, _, _, _, _)

\* the blocks around the longest block m = <<i, j, size>>
MatchAround(a, alo, ahi, b, blo, bhi, m) ==
    IF m[3] = 0 THEN 0
    ELSE m[3] + MatchCount(a, alo, m[1], b, blo, m[2])
              + MatchCount(a, m[1] + m[3], ahi, b, m[2] + m[3], bhi)

MatchCount(a, alo, ahi, b, blo, bhi) ==
    MatchAround(a, alo, ahi, b, blo, bhi,
                FindLongestMatch(a, alo, ahi, b, blo, bhi))

\* ratio() > num/den, where ratio() = 2 * matches / (len(a) + len(b)) and the
\* ratio of two empty strings is 1.0
RatioAbove(a, b, num, den) ==
    LET total == Len(a) + Len(b)
        matches == MatchCount(a, 1, Len(a) + 1, b, 1, Len(b) + 1)
    IN  IF total = 0 THEN den > num
        ELSE 2 * matches * den > num * total


(***************************************************************************)
(* find_window: title scoring                                              *)
(***************************************************************************)

\* app_words: the words of app_lower longer than one character
SignificantWords(app_lower) ==
    SelectSeq(Split(app_lower), LAMBDA w : Len(w) > 1)

SeqToSet(s) == {s[i] : i \in 1..Len(s)}

\* the fuzzy rule of _title_matches
FuzzyRule(app_words, title_words) ==
    IF Len(app_words) >= 2
    THEN \A i \in 1..Len(app_words) :
            \E j \in 1..Len(title_words) :
                RatioAbove(app_words[i], title_words[j], 7, 10)
    ELSE IF Len(app_words) = 1
    THEN \E j \in 1..Len(title_words) :
            RatioAbove(app_words[1], title_words[j], 85, 100)
    ELSE FALSE

\* a _title_matches that tests the primary word before the phrase
TitleMatchesPrimaryFirst(app_lower, title_lower) ==
    LET app_words == SignificantWords(app_lower)
        title_words == Split(title_lower)
    IN  IF Strip(title_lower) = <<>> THEN 0
        ELSE IF /\ app_words # <<>>
                /\ \E j \in 1..Len(title_words) :
                        StartsWith(title_words[j], app_words[1])
        THEN 2
        ELSE IF Contains(app_lower, title_lower) THEN 4
        ELSE IF /\ app_words # <<>>
                /\ \A i \in 1..Len(app_words) : Contains(app_words[i], title_lower)
        THEN 3
        ELSE IF FuzzyRule(app_words, title_words) THEN 1
        ELSE 0

\* _title_matches(title_lower) of find_window(app_name), app_lower being
\* app_name.lower().strip()
TitleMatches(app_lower, title_lower) ==
    LET app_words == SignificantWords(app_lower)
        title_words == Split(title_lower)
    IN  IF Strip(title_lower) = <<>> THEN 0
        ELSE IF Contains(app_lower, title_lower) THEN 4
        ELSE IF /\ app_words # <<>>
                /\ \A i \in 1..Len(app_words) : Contains(app_words[i], title_lower)
        THEN 3
        ELSE IF /\ app_words # <<>>
                /\ \E j \in 1..Len(title_words) :
                        \/ title_words[j] = app_words[1]
                        \/ StartsWith(title_words[j], app_words[1])
        THEN 2
        ELSE IF FuzzyRule(app_words, title_words) THEN 1
        ELSE 0

(***************************************************************************)
(* The desktop seen through pywinauto.                                     *)
(* A window is [h, title, pid, st].  st tells how the window answers:      *)
(*   "ok"            every query succeeds                                  *)
(*   "title_raises"  window_text() raises                                  *)
(*   "handle_raises" reading .handle raises                                *)
(*   "no_handle"     .handle is 0 (no native handle)                       *)
(*   "gone"          enumerated, but connect(handle=...) raises            *)
(*   "vanishing"     connect succeeds, exists() answers False              *)
(* The desktop is the sequence of windows in enumeration (Z) order.        *)
(* The environment env is [desk, enum_ok, regex_ok, tasklist_ok, procs].   *)
(***************************************************************************)

None == 0

Event(op, arg) == [op |-> op, arg |-> arg]

\* w.handle as the program reads it
HandleOf(w) == IF w.st = "no_handle" THEN 0 ELSE w.h

\* app.top_window(): the first window of the process in Z order
TopWindow(desk, pid) ==
    LET idx == {i \in 1..Len(desk) : desk[i].pid = pid /\ desk[i].st # "gone"}
    IN  IF idx = {} THEN None
        ELSE desk[CHOOSE i \in idx : \A j \in idx : i <= j].h

WindowByH(desk, h) == CHOOSE i \in 1..Len(desk) : desk[i].h = h

\* Application(backend="uia").connect(process=pid).top_window(), followed by
\* dlg.exists(): [win, raised]
ConnectProcess(desk, pid) ==
    LET top == TopWindow(desk, pid)
    IN  IF top = None THEN [win |-> None, raised |-> TRUE]
        ELSE IF desk[WindowByH(desk, top)].st = "vanishing"
             THEN [win |-> None, raised |-> FALSE]
             ELSE [win |-> top, raised |-> FALSE]

\* Application(backend="uia").connect(handle=h).top_window(), followed by
\* dlg.exists(): [win, raised]
ConnectHandle(desk, h) ==
    IF \/ h = 0
       \/ ~ \E i \in 1..Len(desk) : HandleOf(desk[i]) = h /\ desk[i].st # "gone"
    THEN [win |-> None, raised |-> TRUE]
    ELSE ConnectProcess(desk, desk[WindowByH(desk, h)].pid)

\* Application(backend="uia").connect(title_re=".*(?i)<pattern>.*"): the
\* one window whose title matches; none or several raise, and so does the
\* pattern itself where the regex engine rejects an inline flag that is not
\* at the start (env.regex_ok = FALSE)
ConnectTitleRe(env, pattern) ==
    LET desk == env.desk
        idx == {i \in 1..Len(desk) :
                    /\ desk[i].st \notin {"gone", "title_raises"}
                    /\ Contains(Lower(pattern), Lower(desk[i].title))}
    IN  IF ~env.regex_ok \/ Cardinality(idx) # 1
        THEN [win |-> None, raised |-> TRUE]
        ELSE ConnectProcess(desk, desk[CHOOSE i \in idx : TRUE].pid)

(***************************************************************************)
(* Session cache: _window_cache maps app_name.lower() to                   *)
(* [handle, title, pid, last_seen]                                         *)
(***************************************************************************)

CacheTtl == 60

CacheDrop(cache, key) == [k \in DOMAIN cache \ {key} |-> cache[k]]

CachePut(cache, key, entry) ==
    [k \in DOMAIN cache \cup {key} |-> IF k = key THEN entry ELSE cache[k]]

\* _cache_window(app_name, window): nothing is stored when a query raises
CacheWindow(cache, app_name, win, now, desk) ==
    LET w == desk[WindowByH(desk, win)]
    IN  IF w.st \in {"title_raises", "handle_raises"} THEN cache
        ELSE CachePut(cache, Lower(app_name),
                      [handle |-> HandleOf(w), title |-> w.title,
                       pid |-> w.pid, last_seen |-> now])

\* a _get_cached_window whose entries never expire
GetCachedWindowNoExpiry(cache, app_name, now, desk) ==
    LET key == Lower(app_name)
    IN  IF key \notin DOMAIN cache
        THEN [win |-> None, cache |-> cache, connects |-> 0]
        ELSE LET c == ConnectHandle(desk, cache[key].handle)
             IN  IF c.raised
                 THEN [win |-> None, cache |-> CacheDrop(cache, key),
                       connects |-> 1]
                 ELSE IF c.win # None
                 THEN [win |-> c.win,
                       cache |-> [cache EXCEPT ![key].last_seen = now],
                       connects |-> 1]
                 ELSE [win |-> None, cache |-> cache, connects |-> 1]

\* a _get_cached_window that ignores an expired entry and keeps it
GetCachedWindowKeepsExpired(cache, app_name, now, desk) ==
    LET key == Lower(app_name)
    IN  IF key \notin DOMAIN cache
        THEN [win |-> None, cache |-> cache, connects |-> 0]
        ELSE IF now - cache[key].last_seen > CacheTtl * 1000
        THEN [win |-> None, cache |-> cache, connects |-> 0]
        ELSE LET c == ConnectHandle(desk, cache[key].handle)
             IN  IF c.raised
                 THEN [win |-> None, cache |-> CacheDrop(cache, key),
                       connects |-> 1]
                 ELSE IF c.win # None
                 THEN [win |-> c.win,
                       cache |-> [cache EXCEPT ![key].last_seen = now],
                       connects |-> 1]
                 ELSE [win |-> None, cache |-> cache, connects |-> 1]

\* a _get_cached_window whose successful reconnect keeps the hit entry only
GetCachedWindowForgetsOthers(cache, app_name, now, desk) ==
    LET key == Lower(app_name)
    IN  IF key \notin DOMAIN cache
        THEN [win |-> None, cache |-> cache, connects |-> 0]
        ELSE IF now - cache[key].last_seen > CacheTtl * 1000
        THEN [win |-> None, cache |-> CacheDrop(cache, key), connects |-> 0]
        ELSE LET c == ConnectHandle(desk, cache[key].handle)
             IN  IF c.raised
                 THEN [win |-> None, cache |-> CacheDrop(cache, key),
                       connects |-> 1]
                 ELSE IF c.win # None
                 THEN [win |-> c.win,
                       cache |-> [k \in {key} |->
                                     [cache[key] EXCEPT !.last_seen = now]],
                       connects |-> 1]
                 ELSE [win |-> None, cache |-> cache, connects |-> 1]

\* _get_cached_window(app_name): [win, cache, connects]; connects counts the
\* reconnect attempts made
GetCachedWindow(cache, app_name, now, desk) ==
    LET key == Lower(app_name)
    IN  IF key \notin DOMAIN cache
        THEN [win |-> None, cache |-> cache, connects |-> 0]
        ELSE IF now - cache[key].last_seen > CacheTtl * 1000
        THEN [win |-> None, cache |-> CacheDrop(cache, key), connects |-> 0]
        ELSE LET c == ConnectHandle(desk, cache[key].handle)
             IN  IF c.raised
                 THEN [win |-> None, cache |-> CacheDrop(cache, key),
                       connects |-> 1]
                 ELSE IF c.win # None
                 THEN [win |-> c.win,
                       cache |-> [cache EXCEPT ![key].last_seen = now],
                       connects |-> 1]
                 ELSE [win |-> None, cache |-> cache, connects |-> 1]

(***************************************************************************)
(* find_window                                                             *)
(***************************************************************************)

\* the minimum title score the scan connects at
MinScanScore == 2

\* one pass of the loop "for w in desktop.windows()" from window i on;
\* acc is [best_score, best_handle, trace]
RECURSIVE ScanTitles(_, _, _, _)
ScanTitles(app_lower, desk, i, acc) ==
    IF i > Len(desk) THEN acc
    ELSE LET w == desk[i]
             score == TitleMatches(app_lower, Lower(w.title))
             seen == Append(acc.trace, Event("score", w.h))
         IN  IF w.st = "title_raises" \/ Strip(w.title) = <<>>
             THEN ScanTitles(app_lower, desk, i + 1, acc)
             ELSE IF score > acc.best_score
             THEN ScanTitles(app_lower, desk, i + 1,
                    [best_score |-> score,
                     best_handle |-> IF w.st = "handle_raises"
                                     THEN acc.best_handle ELSE HandleOf(w),
                     trace |-> seen])
             ELSE ScanTitles(app_lower, desk, i + 1,
                    [acc EXCEPT !.trace = seen])

\* the end of the title scan, lines 194-197: connect to the best window
\* when its score is at least 2
TitleScanEnd(env, acc) ==
    IF acc.best_handle # None /\ acc.best_score >= MinScanScore
    THEN [win |-> ConnectHandle(env.desk, acc.best_handle).win,
          best_score |-> acc.best_score,
          best_handle |-> acc.best_handle,
          trace |-> Append(acc.trace,
                           Event("connect_handle", acc.best_handle))]
    ELSE [win |-> None, best_score |-> acc.best_score,
          best_handle |-> acc.best_handle, trace |-> acc.trace]

\* the strategy "scan all windows, pick best match": [win, best_score,
\* best_handle, trace]
TitleScan(app_lower, env) ==
    TitleScanEnd(env,
        IF env.enum_ok
        THEN ScanTitles(app_lower, env.desk, 1,
                        [best_score |-> 0, best_handle |-> None,
                         trace |-> <<Event("enumerate", 0)>>])
        ELSE [best_score |-> 0, best_handle |-> None,
              trace |-> <<Event("enumerate", 0)>>])

\* search_terms of the process scan
SearchTerms(app_lower) ==
    LET app_words == SignificantWords(app_lower)
    IN  <<ReplaceBlank(app_lower, <<>>)>>
        \o (IF app_words # <<>> THEN <<app_words[1]>> ELSE <<>>)
        \o <<ReplaceBlank(app_lower, <<"_">>)>>

\* the loop "for term in search_terms" for one process, from term t on:
\* [win, trace]
RECURSIVE TryTerms(_, _, _, _, _)
TryTerms(terms, t, proc, desk, trace) ==
    IF t > Len(terms) THEN [win |-> None, trace |-> trace]
    ELSE IF Contains(terms[t], proc.name) \/ StartsWith(proc.name, terms[t])
    THEN LET c == ConnectProcess(desk, proc.pid)
             tr == Append(trace, Event("connect_pid", proc.pid))
         IN  IF c.raised THEN [win |-> None, trace |-> tr]
             ELSE IF c.win # None THEN [win |-> c.win, trace |-> tr]
             ELSE TryTerms(terms, t + 1, proc, desk, tr)
    ELSE TryTerms(terms, t + 1, proc, desk, trace)

\* a process scan that ends at the first process whose connect raises
RECURSIVE ScanProcessesStopsAtFailure(_, _, _, _, _)
ScanProcessesStopsAtFailure(terms, procs, i, desk, trace) ==
    IF i > Len(procs) THEN [win |-> None, trace |-> trace]
    ELSE IF procs[i].pid < 0
    THEN ScanProcessesStopsAtFailure(terms, procs, i + 1, desk, trace)
    ELSE LET r == TryTerms(terms, 1, procs[i], desk, trace)
         IN  IF r.win # None THEN r
             ELSE IF r.trace # trace /\ ConnectProcess(desk, procs[i].pid).raised
             THEN r
             ELSE ScanProcessesStopsAtFailure(terms, procs, i + 1, desk,
                                              r.trace)

\* the loop over the lines of tasklist from line i on: [win, trace]; a line
\* whose PID column is no integer has pid -1
RECURSIVE ScanProcesses(_, _, _, _, _)
ScanProcesses(terms, procs, i, desk, trace) ==
    IF i > Len(procs) THEN [win |-> None, trace |-> trace]
    ELSE IF procs[i].pid < 0 THEN ScanProcesses(terms, procs, i + 1, desk, trace)
    ELSE LET r == TryTerms(terms, 1, procs[i], desk, trace)
         IN  IF r.win # None THEN r
             ELSE ScanProcesses(terms, procs, i + 1, desk, r.trace)

\* the strategies of find_window after the title scan: [win, trace]
LaterStrategies(app_name, app_lower, env, trace) ==
    LET app_words == SignificantWords(app_lower)
        exact == ConnectTitleRe(env, app_name)
        t1 == Append(trace, Event("regex_exact", 0))
        primary == IF app_words # <<>> THEN ConnectTitleRe(env, app_words[1])
                   ELSE [win |-> None, raised |-> FALSE]
        t2 == IF app_words # <<>> THEN Append(t1, Event("regex_primary", 0))
              ELSE t1
        t3 == Append(t2, Event("tasklist", 0))
    IN  IF exact.win # None THEN [win |-> exact.win, trace |-> t1]
        ELSE IF primary.win # None THEN [win |-> primary.win, trace |-> t2]
        ELSE IF env.tasklist_ok
        THEN ScanProcesses(SearchTerms(app_lower), env.procs, 1, env.desk, t3)
        ELSE [win |-> None, trace |-> t3]

\* find_window after the title scan: its window, or what the later
\* strategies return
FindWindowLater(got, scan, later) ==
    IF scan.win # None
    THEN [win |-> scan.win, cache |-> got.cache,
          trace |-> <<Event("cache_get", got.connects)>> \o scan.trace,
          best_score |-> scan.best_score, best_handle |-> scan.best_handle]
    ELSE [win |-> later.win, cache |-> got.cache, trace |-> later.trace,
          best_score |-> scan.best_score, best_handle |-> scan.best_handle]

\* find_window from the title scan on; the later strategies run only when
\* the scan returned nothing
FindWindowScan(app_name, app_lower, env, got, scan) ==
    FindWindowLater(got, scan,
        LaterStrategies(app_name, app_lower, env,
                        <<Event("cache_get", got.connects)>> \o scan.trace))

\* a find_window that scans although the cached lookup returned a window
FindWindowGotRescans(app_name, app_lower, cache, env, got) ==
    IF app_lower = <<>>
    THEN [win |-> None, cache |-> cache, trace |-> <<>>,
          best_score |-> 0, best_handle |-> None]
    ELSE FindWindowScan(app_name, app_lower, env, got,
                        TitleScan(app_lower, env))

\* find_window after the cached lookup got
FindWindowGot(app_name, app_lower, cache, env, got) ==
    IF app_lower = <<>>
    THEN [win |-> None, cache |-> cache, trace |-> <<>>,
          best_score |-> 0, best_handle |-> None]
    ELSE IF got.win # None
    THEN [win |-> got.win, cache |-> got.cache,
          trace |-> <<Event("cache_get", got.connects)>>,
          best_score |-> 0, best_handle |-> None]
    ELSE FindWindowScan(app_name, app_lower, env, got,
                        TitleScan(app_lower, env))

\* find_window(app_name): [win, cache, trace, best_score, best_handle]; win
\* is the handle of the window returned, None when nothing is returned
FindWindow(app_name, cache, now, env) ==
    FindWindowGot(app_name, Strip(Lower(app_name)), cache, env,
                  GetCachedWindow(cache, app_name, now, env.desk))

(***************************************************************************)
(* SmartNavigator.  The window under search is                             *)
(*   [rect, rect_ok, tree, uia_ok, screen, ocr_ok]                         *)
(* rect is [left, top, w, h]; tree is the sequence of UIA elements         *)
(* [name, auto_id, ctype, rect]; screen is the sequence of texts the OCR   *)
(* engine reads, in recognition order, [text, conf, x, y, w, h] with       *)
(* window-relative positions.  A result is a record with every key; a key  *)
(* the program leaves out holds its value in NoResult.                     *)
(***************************************************************************)

TesseractName == "Tesseract OCR"
InstallHint == "shell.powershell: choco install tesseract -y"

NoRect == [x |-> 0, y |-> 0, w |-> 0, h |-> 0]

NoResult ==
    [found |-> FALSE, method |-> "", error |-> "", text |-> <<>>,
     rect |-> NoRect, center |-> [x |-> 0, y |-> 0], confidence |-> -1,
     has_element |-> FALSE, region_hint |-> "", needs_llm |-> FALSE,
     has_dump |-> FALSE, ocr_dump |-> <<>>, ocr_item_count |-> -1,
     missing |-> "", install_hint |-> ""]

Min(a, b) == IF a < b THEN a ELSE b

\* rect origin + half extents
CenterOf(r) == [x |-> r.x + r.w \div 2, y |-> r.y + r.h \div 2]

\* type_map of locate_via_accessibility; "" when the type is not mapped
ControlTypeOf(element_type) ==
    CASE element_type = "button" -> "Button"
      [] element_type = "link" -> "Hyperlink"
      [] element_type = "input" -> "Edit"
      [] element_type = "text" -> "Text"
      [] element_type = "tab" -> "TabItem"
      [] element_type = "menu_item" -> "MenuItem"
      [] element_type = "checkbox" -> "CheckBox"
      [] element_type = "radio" -> "RadioButton"
      [] element_type = "list_item" -> "ListItem"
      [] element_type = "tree_item" -> "TreeItem"
      [] OTHER -> ""

\* window.child_window(<criterion>, control_type=...).exists(): the index of
\* the one element that satisfies the criterion, 0 when there is none, -1
\* when several do (ElementAmbiguousError)
ChildWindow(tree, ctype, by, element_text) ==
    LET idx == {i \in 1..Len(tree) :
                    /\ CASE by = "title" -> tree[i].name = element_text
                          [] by = "title_re" -> Contains(element_text, tree[i].name)
                          [] OTHER -> tree[i].auto_id = element_text
                    /\ (ctype = "" \/ tree[i].ctype = ctype)}
    IN  IF idx = {} THEN 0
        ELSE IF Cardinality(idx) > 1 THEN -1
        ELSE CHOOSE i \in idx : TRUE

Tier1Result(el, method) ==
    [NoResult EXCEPT !.found = TRUE, !.method = method, !.text = el.name,
                     !.rect = el.rect, !.center = CenterOf(el.rect),
                     !.has_element = TRUE]

\* locate_via_accessibility: a result, or NoResult for Python's None
LocateViaAccessibility(window, element_text, element_type) ==
    LET ctype == ControlTypeOf(element_type)
        exact == ChildWindow(window.tree, ctype, "title", element_text)
        partial == ChildWindow(window.tree, ctype, "title_re", element_text)
        auto == ChildWindow(window.tree, ctype, "auto_id", element_text)
    IN  IF ~window.uia_ok THEN NoResult
        ELSE IF exact > 0
        THEN Tier1Result(window.tree[exact], "accessibility_exact")
        ELSE IF partial > 0
        THEN Tier1Result(window.tree[partial], "accessibility_partial")
        ELSE IF auto > 0
        THEN Tier1Result(window.tree[auto], "accessibility_auto_id")
        ELSE NoResult

\* a step of the cascade, for the call trace: [op, arg]
Call(op, arg) == [op |-> op, arg |-> arg]

\* fuzzy_score(needle, haystack) as the fraction <<numerator, denominator>>
FuzzyScore(needle, haystack) ==
    IF needle = <<>> \/ haystack = <<>> THEN <<0, 1>>
    ELSE LET a == Lower(needle)
             b == Lower(haystack)
         IN  <<2 * MatchCount(a, 1, Len(a) + 1, b, 1, Len(b) + 1),
               Len(a) + Len(b)>>

\* p > q for two fractions with positive denominators
FracGreater(p, q) == p[1] * q[2] > q[1] * p[2]

\* a best_fuzzy_match that takes a later item whose score equals the best
RECURSIVE BestFuzzyFromLatest(_, _, _, _)
BestFuzzyFromLatest(needle, items, i, acc) ==
    IF i > Len(items) THEN acc
    ELSE LET text == Strip(items[i].text)
             score == FuzzyScore(needle, text)
         IN  IF text # <<>> /\ ~FracGreater(acc.best_score, score)
             THEN BestFuzzyFromLatest(needle, items, i + 1,
                                      [best |-> i, best_score |-> score])
             ELSE BestFuzzyFromLatest(needle, items, i + 1, acc)

\* best_fuzzy_match from item i on; acc is [best, best_score], best the index
\* of the best item so far, 0 for None
RECURSIVE BestFuzzyFrom(_, _, _, _)
BestFuzzyFrom(needle, items, i, acc) ==
    IF i > Len(items) THEN acc
    ELSE LET text == Strip(items[i].text)
             score == FuzzyScore(needle, text)
         IN  IF text # <<>> /\ FracGreater(score, acc.best_score)
             THEN BestFuzzyFrom(needle, items, i + 1,
                                [best |-> i, best_score |-> score])
             ELSE BestFuzzyFrom(needle, items, i + 1, acc)

\* best_fuzzy_match(needle, ocr_items, threshold): the index of the match,
\* 0 for None
BestFuzzyMatch(needle, items, threshold) ==
    BestFuzzyFrom(needle, items, 1, [best |-> 0, best_score |-> threshold]).best

\* _get_region_rect(window_rect, hint), as [x, y, w, h]
GetRegionRect(r, hint) ==
    LET R(x, y, w, h) == [x |-> x, y |-> y, w |-> w, h |-> h]
    IN  CASE hint = "menu_bar" -> R(r.x, r.y, r.w, Min(60, r.h))
          [] hint = "top" -> R(r.x, r.y, r.w, r.h \div 3)
          [] hint = "top_half" -> R(r.x, r.y, r.w, r.h \div 2)
          [] hint = "bottom" ->
                R(r.x, r.y + r.h - Min(200, r.h), r.w, Min(200, r.h))
          [] hint = "bottom_half" -> R(r.x, r.y + r.h \div 2, r.w, r.h \div 2)
          [] hint = "sidebar" -> R(r.x, r.y, Min(250, r.w), r.h)
          [] hint = "left" -> R(r.x, r.y, r.w \div 3, r.h)
          [] hint = "right" -> R(r.x + (r.w * 2) \div 3, r.y, r.w \div 3, r.h)
          [] hint = "center" ->
                R(r.x + r.w \div 4, r.y + r.h \div 4, r.w \div 2, r.h \div 2)
          [] hint = "top_left" -> R(r.x, r.y, Min(300, r.w), Min(300, r.h))
          [] hint = "top_right" ->
                R(r.x + r.w - Min(300, r.w), r.y, Min(300, r.w), Min(300, r.h))
          [] OTHER -> R(r.x, r.y, r.w, r.h)

\* pyautogui.screenshot(region) followed by pytesseract.image_to_data: the
\* texts of the window that lie inside the region, in recognition order,
\* positioned relative to the region and scaled by num/den
OcrData(window, region, num, den) ==
    LET inside(t) ==
            /\ region.x <= window.rect.x + t.x
            /\ window.rect.x + t.x + t.w <= region.x + region.w
            /\ region.y <= window.rect.y + t.y
            /\ window.rect.y + t.y + t.h <= region.y + region.h
        seen == SelectSeq(window.screen, inside)
    IN  [i \in 1..Len(seen) |->
            [text |-> seen[i].text, conf |-> seen[i].conf,
             left |-> ((window.rect.x + seen[i].x - region.x) * num) \div den,
             top |-> ((window.rect.y + seen[i].y - region.y) * num) \div den,
             width |-> (seen[i].w * num) \div den,
             height |-> (seen[i].h * num) \div den]]

\* the confidence floors of Tier 2 and Tier 3
RegionMinConf == 30
FullMinConf == 20

\* a loop that also skips the entries whose confidence equals the floor
RECURSIVE OcrItemsFromAbove(_, _, _, _, _, _, _)
OcrItemsFromAbove(data, i, min_conf, ox, oy, num, den) ==
    IF i > Len(data) THEN <<>>
    ELSE LET d == data[i]
             text == Strip(d.text)
             rest == OcrItemsFromAbove(data, i + 1, min_conf, ox, oy, num, den)
         IN  IF text = <<>> \/ d.conf <= min_conf THEN rest
             ELSE <<[text |-> text, confidence |-> d.conf,
                     rect |-> [x |-> ox + (d.left * den) \div num,
                               y |-> oy + (d.top * den) \div num,
                               w |-> (d.width * den) \div num,
                               h |-> (d.height * den) \div num]]>> \o rest

\* the loop that builds ocr_items, from entry i of the OCR data on; a
\* position p of the image is the screen position origin + p * den / num
RECURSIVE OcrItemsFrom(_, _, _, _, _, _, _)
OcrItemsFrom(data, i, min_conf, ox, oy, num, den) ==
    IF i > Len(data) THEN <<>>
    ELSE LET d == data[i]
             text == Strip(d.text)
             rest == OcrItemsFrom(data, i + 1, min_conf, ox, oy, num, den)
         IN  IF text = <<>> \/ d.conf < min_conf THEN rest
             ELSE <<[text |-> text, confidence |-> d.conf,
                     rect |-> [x |-> ox + (d.left * den) \div num,
                               y |-> oy + (d.top * den) \div num,
                               w |-> (d.width * den) \div num,
                               h |-> (d.height * den) \div num]]>> \o rest

\* the first item that contains the needle, 0 when there is none
FirstExact(needle, items) ==
    LET idx == {i \in 1..Len(items) : Contains(Lower(needle), Lower(items[i].text))}
    IN  IF idx = {} THEN 0 ELSE CHOOSE i \in idx : \A j \in idx : i <= j

OcrMatch(item, method, hint) ==
    [NoResult EXCEPT !.found = TRUE, !.method = method, !.text = item.text,
                     !.confidence = item.confidence, !.rect = item.rect,
                     !.center = CenterOf(item.rect), !.region_hint = hint]

\* the fuzzy thresholds of Tier 2 (0.6) and Tier 3 (0.55)
RegionThreshold == <<6, 10>>
FullThreshold == <<55, 100>>

\* the screen capture and the text recognition of one scan
Shot(what) == <<Call("capture", what), Call("ocr", what)>>

\* the end of locate_via_ocr_region: the first item that contains the
\* text, else the best fuzzy match
RegionPick(items, hint, exact, fuzzy) ==
    IF exact > 0
    THEN [res |-> OcrMatch(items[exact], "ocr_region_exact",
                           IF hint = "" THEN "full" ELSE hint),
          trace |-> Shot(hint)]
    ELSE IF fuzzy > 0
    THEN [res |-> OcrMatch(items[fuzzy], "ocr_region_fuzzy",
                           IF hint = "" THEN "full" ELSE hint),
          trace |-> Shot(hint)]
    ELSE [res |-> NoResult, trace |-> Shot(hint)]

\* locate_via_ocr_region on the items read
RegionMatch(element_text, hint, items) ==
    IF items = <<>> THEN [res |-> NoResult, trace |-> Shot(hint)]
    ELSE RegionPick(items, hint, FirstExact(element_text, items),
                    BestFuzzyMatch(element_text, items, RegionThreshold))

\* locate_via_ocr_region on the region rectangle
RegionScan(window, element_text, hint, region) ==
    IF region.w <= 0 \/ region.h <= 0 THEN [res |-> NoResult, trace |-> <<>>]
    ELSE IF ~window.ocr_ok THEN [res |-> NoResult, trace |-> Shot(hint)]
    ELSE RegionMatch(element_text, hint,
                     OcrItemsFrom(OcrData(window, region, 1, 1), 1,
                                  RegionMinConf, region.x, region.y, 1, 1))

\* locate_via_ocr_region: [res, trace], res = NoResult for Python's None
LocateViaOcrRegion(window, element_text, hint, tesseract) ==
    IF ~tesseract \/ ~window.rect_ok THEN [res |-> NoResult, trace |-> <<>>]
    ELSE RegionScan(window, element_text, hint,
                    GetRegionRect(window.rect, hint))

\* the widest image Tier 3 reads without resampling, and the size of the dump
MaxWidth == 1280
DumpCap == 50

\* ocr_dump: the first DumpCap items as [index, text, rect]
OcrDump(items) ==
    [i \in 1..Min(DumpCap, Len(items)) |->
        [index |-> i - 1, text |-> items[i].text, rect |-> items[i].rect]]

\* a locate_via_full_scan without the guard on TESSERACT_AVAILABLE:
\* it captures the window and fails in the text recognition
LocateViaFullScanNoGuard(window, element_text, tesseract) ==
    [res |-> [NoResult EXCEPT !.method = "ocr_full", !.error = "scan_failed"],
     trace |-> <<Call("capture", "window"), Call("ocr", "window")>>]

\* a failure of locate_via_full_scan
FullFail(error) == [NoResult EXCEPT !.method = "ocr_full", !.error = error]

\* the end of locate_via_full_scan: the first item that contains the text,
\* else the best fuzzy match, else the dump
FullPick(items, exact, fuzzy) ==
    IF exact > 0
    THEN [res |-> OcrMatch(items[exact], "ocr_full_exact", ""),
          trace |-> Shot("window")]
    ELSE IF fuzzy > 0
    THEN [res |-> OcrMatch(items[fuzzy], "ocr_full_fuzzy", ""),
          trace |-> Shot("window")]
    ELSE [res |-> [NoResult EXCEPT !.method = "ocr_full_no_match",
                                   !.error = "no_match",
                                   !.has_dump = TRUE,
                                   !.ocr_dump = OcrDump(items),
                                   !.ocr_item_count = Len(items),
                                   !.needs_llm = TRUE],
          trace |-> Shot("window")]

\* locate_via_full_scan on the items read
FullMatch(element_text, items) ==
    IF items = <<>>
    THEN [res |-> FullFail("no_text"), trace |-> Shot("window")]
    ELSE FullPick(items, FirstExact(element_text, items),
                  BestFuzzyMatch(element_text, items, FullThreshold))

\* locate_via_full_scan on an image scaled by num/den
FullScan(window, element_text, num, den) ==
    FullMatch(element_text,
              OcrItemsFrom(OcrData(window, window.rect, num, den), 1,
                           FullMinConf, window.rect.x, window.rect.y, num, den))

\* locate_via_full_scan: [res, trace]
LocateViaFullScan(window, element_text, tesseract) ==
    IF ~tesseract
    THEN [res |-> [NoResult EXCEPT !.method = "none",
                                   !.error = "tesseract_missing",
                                   !.missing = TesseractName,
                                   !.install_hint = InstallHint],
          trace |-> <<>>]
    ELSE IF ~window.rect_ok
    THEN [res |-> FullFail("scan_failed"), trace |-> <<>>]
    ELSE IF window.rect.w <= 0 \/ window.rect.h <= 0
    THEN [res |-> FullFail("zero_size"), trace |-> <<>>]
    ELSE IF ~window.ocr_ok
    THEN [res |-> FullFail("scan_failed"), trace |-> Shot("window")]
    ELSE IF window.rect.w > MaxWidth
    THEN FullScan(window, element_text, MaxWidth, window.rect.w)
    ELSE FullScan(window, element_text, 1, 1)

\* a smart_find that tries the sidebar first
CommonRegionsSidebarFirst == <<"sidebar", "center", "menu_bar">>

\* the regions smart_find tries when no hint is given
CommonRegions == <<"menu_bar", "center", "sidebar">>

\* a scan of Tier 2 with the calls made before it: [res, trace]
Scanned(hint, r, trace) ==
    [res |-> r.res, trace |-> trace \o <<Call("tier2", hint)>> \o r.trace]

\* the loop "for hint in [...]" of smart_find from region i on: [res, trace]
RECURSIVE TryRegions(_, _, _, _, _)

\* one pass of that loop, after the region was scanned
TriedRegion(window, element_text, tesseract, i, t) ==
    IF t.res.found THEN t
    ELSE TryRegions(window, element_text, tesseract, i + 1, t.trace)

TryRegions(window, element_text, tesseract, i, trace) ==
    IF i > Len(CommonRegions) THEN [res |-> NoResult, trace |-> trace]
    ELSE TriedRegion(window, element_text, tesseract, i,
                     Scanned(CommonRegions[i],
                             LocateViaOcrRegion(window, element_text,
                                                CommonRegions[i], tesseract),
                             trace))

\* Tier 2 of smart_find: nothing without the OCR engine, the hinted region,
\* or the common regions: [res, trace]
Tier2(window, element_text, location_hint, tesseract) ==
    IF ~tesseract THEN [res |-> NoResult, trace |-> <<Call("tier1", "")>>]
    ELSE IF location_hint # ""
    THEN Scanned(location_hint,
                 LocateViaOcrRegion(window, element_text, location_hint,
                                    tesseract),
                 <<Call("tier1", "")>>)
    ELSE TryRegions(window, element_text, tesseract, 1, <<Call("tier1", "")>>)

\* smart_find at Tier 3
AfterTier3(t2, t3) ==
    [res |-> t3.res, trace |-> t2.trace \o <<Call("tier3", "")>> \o t3.trace]

\* smart_find after Tier 2
AfterTier2(window, element_text, tesseract, t2) ==
    IF t2.res.found THEN t2
    ELSE AfterTier3(t2, LocateViaFullScan(window, element_text, tesseract))

\* smart_find after Tier 1
AfterTier1(window, element_text, location_hint, tesseract, t1) ==
    IF t1.found THEN [res |-> t1, trace |-> <<Call("tier1", "")>>]
    ELSE AfterTier2(window, element_text, tesseract,
                    Tier2(window, element_text, location_hint, tesseract))

\* a smart_find that runs the full scan although Tier 1 matched
SmartFindNoShortCircuit(window, element_text, element_type, location_hint, tesseract) ==
    AfterTier3([res |-> LocateViaAccessibility(window, element_text, element_type),
                trace |-> <<Call("tier1", "")>>],
               LocateViaFullScan(window, element_text, tesseract))

\* smart_find: [res, trace]; trace lists the tiers called, the screen
\* captures and the text recognitions, in order
SmartFind(window, element_text, element_type, location_hint, tesseract) ==
    AfterTier1(window, element_text, location_hint, tesseract,
               LocateViaAccessibility(window, element_text, element_type))

(***************************************************************************)
(* State                                                                   *)
(***************************************************************************)

VARIABLES
    sc,     \* title scoring under test: [app, title, score]
    rs,     \* find_window under test: [app, cache, now, env, done, out]
    lc,     \* smart_find under test: [window, text, type, hint, done, out]
    dg,     \* _check_for_dialog under test: [app, wins, done, out]
    tesseract,  \* TESSERACT_AVAILABLE
    pc,     \* run_daemon: "off", "start", "loop", "done" or "crashed";
            \* run_oneshot: "oneshot", then "exit0" or "exit1"
    nread,  \* run_daemon: the number of input lines read
    out,    \* run_daemon: the objects written to stdout, in order
    log,    \* run_daemon: the reads and writes, in order
    cache,  \* _window_cache
    som,    \* _last_som_elements
    now,    \* time.time(), in milliseconds
    world,  \* the handles of the windows that are open
    last    \* what the last dispatched call did

harnessVars == <<sc, rs, lc, dg>>
daemonVars == <<tesseract, pc, nread, out, log, cache, som, now, world, last>>
vars == <<sc, rs, lc, dg, tesseract, pc, nread, out, log, cache, som, now, world, last>>

(***************************************************************************)
(* Inputs                                                                  *)
(***************************************************************************)

MaxAppWords == 2
MaxTitleWords == 2
MaxWindows == 2
MaxTokens == 2

\* the words names and titles are made of; the empty word gives leading,
\* trailing and doubled blanks
WordPool ==
    {<<>>, <<"a", "b", "a">>, <<"A", "b", "b">>, <<"a", "b", "b", "a">>, <<"c">>}

RECURSIVE Join(_)
Join(ws) ==
    IF Len(ws) = 0 THEN <<>>
    ELSE IF Len(ws) = 1 THEN ws[1]
    ELSE ws[1] \o <<" ">> \o Join(Tail(ws))

\* the phrases of one to n words
Phrases(n) == {Join(ws) : ws \in UNION {[1..k -> WordPool] : k \in 1..n}}

S_aba == <<"a", "b", "a">>
S_abb == <<"a", "b", "b">>
S_abba == <<"a", "b", "b", "a">>
S_c == <<"c">>
S_aba_Abb == <<"a", "b", "a", " ", "A", "b", "b">>
S_aba_abb == <<"a", "b", "a", " ", "a", "b", "b">>
S_abb_aba == <<"a", "b", "b", " ", "a", "b", "a">>
S_aba_c == <<"a", "b", "a", " ", "c">>
S_Aba_c == <<"A", "b", "a", " ", "c">>
S_abcc == <<"a", "b", "c", "c">>
S_caba == <<"c", "a", "b", "a">>
S_abcbccc == <<"a", "b", "c", "b", "c", "c", "c">>

NoDaemon ==
    /\ tesseract = FALSE
    /\ pc = "off"
    /\ nread = 0
    /\ out = <<>>
    /\ log = <<>>
    /\ cache = <<>>
    /\ som = <<>>
    /\ now = 0
    /\ world = {}
    /\ last = <<>>

NoFind ==
    [win |-> None, cache |-> <<>>, trace |-> <<>>, best_score |-> 0,
     best_handle |-> None]

NoEnv ==
    [desk |-> <<>>, enum_ok |-> TRUE, regex_ok |-> FALSE, tasklist_ok |-> TRUE,
     procs |-> <<>>]

NoWindow ==
    [rect |-> NoRect, rect_ok |-> TRUE, tree |-> <<>>, uia_ok |-> TRUE,
     screen |-> <<>>, ocr_ok |-> TRUE]

NoScore == [app |-> <<>>, title |-> <<>>, score |-> -1]
NoResolve ==
    [app |-> <<>>, cache |-> <<>>, now |-> 0, env |-> NoEnv, done |-> TRUE,
     out |-> NoFind]
NoDialog == [app |-> <<>>, wins |-> <<>>, done |-> TRUE, out |-> <<>>]
NoLocate ==
    [window |-> NoWindow, text |-> <<>>, type |-> "", hint |-> "",
     tess |-> FALSE, done |-> TRUE, out |-> [res |-> NoResult, trace |-> <<>>]]

(***************************************************************************)
(* Title scoring under test                                                *)
(***************************************************************************)

InitScore ==
    /\ sc \in {[app |-> a, title |-> t, score |-> -1] :
                    a \in {p \in Phrases(MaxAppWords) : Strip(p) # <<>>},
                    t \in Phrases(MaxTitleWords)}
    /\ rs = NoResolve
    /\ lc = NoLocate
    /\ dg = NoDialog
    /\ NoDaemon

\* score = _title_matches(title.lower()) inside find_window(app)
ScoreTitle ==
    /\ sc.score = -1
    /\ sc' = [sc EXCEPT !.score = TitleMatches(Strip(Lower(sc.app)), Lower(sc.title))]
    /\ UNCHANGED <<rs, lc, dg>>
    /\ UNCHANGED daemonVars

SpecScore == InitScore /\ [][ScoreTitle]_vars

\* the rules of the title score as the specification words them, for the
\* lower-cased, stripped name a and the lower-cased title t
RulePhrase(a, t) == Contains(a, t)

RuleAllWords(a, t) ==
    LET ws == SignificantWords(a)
    IN  ws # <<>> /\ \A w \in SeqToSet(ws) : Contains(w, t)

RulePrimary(a, t) ==
    LET ws == SignificantWords(a)
    IN  ws # <<>> /\ \E tw \in SeqToSet(Split(t)) :
                        tw = ws[1] \/ StartsWith(tw, ws[1])

RuleFuzzy(a, t) ==
    LET ws == SignificantWords(a)
        tws == SeqToSet(Split(t))
    IN  \/ /\ Len(ws) >= 2
           /\ \A w \in SeqToSet(ws) : \E tw \in tws : RatioAbove(w, tw, 7, 10)
        \/ /\ Len(ws) = 1
           /\ \E tw \in tws : RatioAbove(ws[1], tw, 85, 100)

ResolveApps == {S_aba_Abb, S_aba}

\* titles that score 4, 3, 2, 1 and 0 against "aba Abb", and an empty title
ResolveTitles == {S_aba_abb, S_abb_aba, S_aba_c, S_abba, S_c, <<>>}

ScanStatuses == {"ok", "title_raises", "handle_raises", "no_handle", "gone"}

\* window i of a desktop has handle 10 + i and its own process i
MakeDesk(f) ==
    [i \in DOMAIN f |-> [h |-> 10 + i, title |-> f[i][1], pid |-> i, st |-> f[i][2]]]

Desks(n, titles, statuses) ==
    {MakeDesk(f) : f \in UNION {[1..k -> titles \X statuses] : k \in 0..n}}

\* desktops of up to MaxWindows windows, no cache entry, no process
ScanInputs ==
    {[app |-> a, cache |-> <<>>, now |-> 0, done |-> FALSE, out |-> NoFind,
      env |-> [NoEnv EXCEPT !.desk = d]] :
        a \in ResolveApps, d \in Desks(MaxWindows, ResolveTitles, ScanStatuses)}

ResolveTime == 100 * 1000

CacheEntry(h, age) ==
    [handle |-> h, title |-> S_aba_abb, pid |-> 1, last_seen |-> ResolveTime - age]

\* a cache holding one entry for the name, age milliseconds old; empty for
\* age -1 and for a blank name, which no call ever caches
CacheFor(app, age) ==
    IF age < 0 \/ Strip(Lower(app)) = <<>> THEN <<>> ELSE [k \in {Lower(app)} |-> CacheEntry(11, age)]

ResolveProcs ==
    {<<>>,
     <<[name |-> S_aba, pid |-> 1]>>,
     <<[name |-> S_c, pid |-> -1], [name |-> <<"a", "b", "a", "a", "b", "b">>, pid |-> 1]>>,
     <<[name |-> S_aba, pid |-> 2], [name |-> S_aba, pid |-> 1]>>}

\* the names of the strategy inputs: two names, a name of one character
\* (no significant word) and a blank name
StrategyApps == ResolveApps \cup {S_c, <<" ">>}

\* one window at most, with the cache, the regex engine, the process list
\* and the failures of the later strategies varied
StrategyInputs ==
    {[app |-> a, cache |-> CacheFor(a, age), now |-> ResolveTime,
      done |-> FALSE, out |-> NoFind,
      env |-> [desk |-> d, enum_ok |-> e, regex_ok |-> r, tasklist_ok |-> t,
               procs |-> p]] :
        a \in StrategyApps, age \in {-1, CacheTtl * 1000, CacheTtl * 1000 + 1},
        d \in Desks(1, {S_aba_abb, S_aba_c, S_abba, S_caba},
                   {"ok", "gone", "vanishing"}),
        e \in BOOLEAN, r \in BOOLEAN, t \in BOOLEAN, p \in ResolveProcs}

\* the key of a second application in the cache
OtherKey == S_c

\* a cache of two entries: the name's entry, age milliseconds old, and one
\* of another application, other milliseconds old
CacheOfTwo(app, age, other) ==
    CachePut(CacheFor(app, age), OtherKey,
             [handle |-> 12, title |-> S_c, pid |-> 2,
              last_seen |-> ResolveTime - other])

\* calls that find the name in a cache of two entries, the window of the
\* cached handle being there, gone or vanishing
ReconnectInputs ==
    {[app |-> a, cache |-> CacheOfTwo(a, age, other), now |-> ResolveTime,
      done |-> FALSE, out |-> NoFind, env |-> [NoEnv EXCEPT !.desk = d]] :
        a \in ResolveApps,
        age \in {0, CacheTtl * 500, CacheTtl * 1000, CacheTtl * 1000 + 1},
        other \in {0, CacheTtl * 1000 + 1},
        d \in Desks(2, {S_aba_abb, S_c}, {"ok", "gone", "vanishing"})}

InitResolve ==
    /\ rs \in ScanInputs \cup StrategyInputs \cup ReconnectInputs
    /\ sc = NoScore
    /\ lc = NoLocate
    /\ dg = NoDialog
    /\ NoDaemon

\* window = find_window(app_name)
Resolve ==
    /\ ~rs.done
    /\ rs' = [rs EXCEPT !.done = TRUE,
                        !.out = FindWindow(rs.app, rs.cache, rs.now, rs.env)]
    /\ UNCHANGED <<sc, lc, dg>>
    /\ UNCHANGED daemonVars

SpecResolve == InitResolve /\ [][Resolve]_vars

\* the connects by handle that a trace of find_window holds
HandleConnects(trace) == SelectSeq(trace, LAMBDA e : e.op = "connect_handle")

\* the windows the title scan scores: those whose title can be read and is
\* not blank
Scored(desk) ==
    {i \in 1..Len(desk) : desk[i].st # "title_raises" /\ Strip(desk[i].title) # <<>>}

ScoreOf(app, w) == TitleMatches(Strip(Lower(app)), Lower(w.title))

MaxScore(app, desk) ==
    IF Scored(desk) = {} THEN 0
    ELSE LET i == CHOOSE i \in Scored(desk) :
                    \A j \in Scored(desk) : ScoreOf(app, desk[i]) >= ScoreOf(app, desk[j])
         IN  ScoreOf(app, desk[i])

\* the first enumerated window that has the maximum score
FirstBest(app, desk) ==
    CHOOSE i \in Scored(desk) :
        /\ ScoreOf(app, desk[i]) = MaxScore(app, desk)
        /\ \A j \in Scored(desk) : ScoreOf(app, desk[j]) = MaxScore(app, desk) => i <= j

\* the title scan ran: find_window went past the cache and enumerated
ScanRan == rs.done /\ rs.env.enum_ok /\ \E i \in 1..Len(rs.out.trace) : rs.out.trace[i].op = "enumerate"

\* C10: the title scan connects to at most one window, which is the first
\* enumerated window of maximum score, and only when that score is at least
\* 2; with a maximum score of 0 or 1 it connects to nothing
C10_ScanConnectsToBest ==
    ScanRan =>
        LET desk == rs.env.desk
            conn == HandleConnects(rs.out.trace)
            best == MaxScore(rs.app, desk)
        IN  /\ Len(conn) <= 1
            /\ best < MinScanScore => conn = <<>>
            /\ conn # <<>> =>
                /\ best >= MinScanScore
                /\ conn[1].arg = desk[FirstBest(rs.app, desk)].h

\* C10, for desktops on which every window's handle can be read
C10_ScanConnectsToBestReadable ==
    (\A i \in 1..Len(rs.env.desk) : rs.env.desk[i].st # "handle_raises")
        => C10_ScanConnectsToBest

\* the strategy an event of the trace belongs to, 1 to 5
StrategyOf(e) ==
    CASE e.op = "cache_get" -> 1
      [] e.op \in {"enumerate", "score", "connect_handle"} -> 2
      [] e.op = "regex_exact" -> 3
      [] e.op = "regex_primary" -> 4
      [] OTHER -> 5

\* the strategies a trace of find_window ran
StrategiesRun(trace) == {StrategyOf(trace[i]) : i \in 1..Len(trace)}

\* what strategy k returns on the inputs of rs when it is run alone
StrategyResult(k) ==
    LET app_lower == Strip(Lower(rs.app))
        app_words == SignificantWords(app_lower)
    IN  CASE k = 1 -> GetCachedWindow(rs.cache, rs.app, rs.now, rs.env.desk).win
          [] k = 2 -> TitleScan(app_lower, rs.env).win
          [] k = 3 -> ConnectTitleRe(rs.env, rs.app).win
          [] k = 4 -> IF app_words = <<>> THEN None
                      ELSE ConnectTitleRe(rs.env, app_words[1]).win
          [] OTHER -> IF ~rs.env.tasklist_ok THEN None
                      ELSE ScanProcesses(SearchTerms(app_lower), rs.env.procs, 1,
                                         rs.env.desk, <<>>).win

\* the strategies run are tried in the order 1 to 5, each at most once
InStrategyOrder(trace) ==
    /\ \A i, j \in 1..Len(trace) :
          i < j => StrategyOf(trace[i]) <= StrategyOf(trace[j])
    /\ \A i, j \in 1..Len(trace) :
          (i < j /\ trace[i].op = trace[j].op)
            => trace[i].op \in {"score", "connect_pid"}

\* the first strategy that succeeds gives the result and is the last one run
FirstSuccessWins ==
    \A k \in 1..5 :
        (StrategyResult(k) # None /\ \A j \in 1..(k - 1) : StrategyResult(j) = None)
          => /\ rs.out.win = StrategyResult(k)
             /\ StrategiesRun(rs.out.trace) \subseteq 1..k
             /\ k \in StrategiesRun(rs.out.trace)

\* C11: find_window tries the cache, the scored title scan, the regex of the
\* whole name, the regex of the primary word and the process scan in this
\* order, returns what the first strategy that succeeds returns and runs no
\* later one, and returns nothing only after all five were run
C11_StrategiesInOrder ==
    rs.done =>
        /\ InStrategyOrder(rs.out.trace)
        /\ FirstSuccessWins
        /\ rs.out.win = None => StrategiesRun(rs.out.trace) = 1..5

\* C11 as the program has it: a name that is blank after strip() returns
\* nothing before any strategy; for every other name the order and the first
\* success are as stated, and nothing is returned only after every strategy
\* was run, the regex of the primary word only when the name has a word of
\* more than one character
C11_StrategiesInOrderNamed ==
    rs.done =>
        IF Strip(Lower(rs.app)) = <<>>
        THEN rs.out.win = None /\ rs.out.trace = <<>>
        ELSE /\ InStrategyOrder(rs.out.trace)
             /\ FirstSuccessWins
             /\ rs.out.win = None =>
                  StrategiesRun(rs.out.trace) =
                    (1..5) \ (IF SignificantWords(Strip(Lower(rs.app))) = <<>>
                              THEN {4} ELSE {})

\* the regex of the primary word found the window after the cache, the title
\* scan and the regex of the whole name had failed
C11_Witness ==
    /\ rs.done
    /\ rs.out.win # None
    /\ StrategiesRun(rs.out.trace) = 1..4
    /\ rs.cache # <<>>
    /\ rs.out.trace[Len(rs.out.trace)].op = "regex_primary"

\* the cache key of the name resolved
ResolveKey == Lower(rs.app)

\* the name resolved has an entry in the cache find_window starts with
HasEntry == rs.done /\ rs.cache # <<>> /\ ResolveKey \in DOMAIN rs.cache

\* the age of that entry in milliseconds
EntryAge == rs.now - rs.cache[ResolveKey].last_seen

\* the window of the cached handle is on the desktop and exists
EntryWindowExists ==
    \E i \in 1..Len(rs.env.desk) :
        /\ rs.env.desk[i].h = rs.cache[ResolveKey].handle
        /\ rs.env.desk[i].st = "ok"

\* the operations of the trace of find_window
TraceOps == {rs.out.trace[i].op : i \in 1..Len(rs.out.trace)}

C13_CacheExpiry ==
    HasEntry =>
        /\ EntryAge > CacheTtl * 1000 =>
              /\ ResolveKey \notin DOMAIN rs.out.cache
              /\ rs.out.trace[1] = Event("cache_get", 0)
              /\ Len(rs.out.trace) > 1
        /\ EntryAge = CacheTtl * 1000 =>
              /\ rs.out.trace[1] = Event("cache_get", 1)
              /\ EntryWindowExists =>
                    /\ rs.out.win = rs.cache[ResolveKey].handle
                    /\ ResolveKey \in DOMAIN rs.out.cache

\* an entry of 60 seconds and one millisecond, whose window exists, was
\* removed and the windows were scanned
C13_Witness ==
    /\ HasEntry
    /\ EntryAge = CacheTtl * 1000 + 1
    /\ EntryWindowExists
    /\ rs.out.cache = <<>>
    /\ rs.out.trace[1] = Event("cache_get", 0)
    /\ "enumerate" \in TraceOps

\* C14: when the cached lookup finds an unexpired entry and cannot reconnect
\* to its window (the connect raises, or the window connected to does not
\* exist), it returns nothing and the entry is gone from the cache
C14_EvictOnReconnectFailure ==
    (/\ HasEntry
     /\ EntryAge <= CacheTtl * 1000
     /\ ~EntryWindowExists) =>
        /\ rs.out.trace[1] = Event("cache_get", 1)
        /\ Len(rs.out.trace) > 1
        /\ ResolveKey \notin DOMAIN rs.out.cache

\* find_window returned the window of the cached entry: the reconnect of the
\* cached lookup succeeded
Reconnected ==
    /\ HasEntry
    /\ rs.out.trace = <<Event("cache_get", 1)>>
    /\ rs.out.win # None

\* C32: a successful reconnect of the cached lookup changes last_seen of the
\* entry found, which becomes the time of the call, and nothing else: the
\* handle, title and pid of the entry and every other entry stay as they
\* were; hence a lookup up to 60 seconds later finds the entry unexpired and
\* reconnects again
C32_ReconnectRefreshesLastSeen ==
    Reconnected =>
        /\ EntryAge <= CacheTtl * 1000
        /\ DOMAIN rs.out.cache = DOMAIN rs.cache
        /\ \A k \in DOMAIN rs.cache \ {ResolveKey} :
              rs.out.cache[k] = rs.cache[k]
        /\ rs.out.cache[ResolveKey] =
              [rs.cache[ResolveKey] EXCEPT !.last_seen = rs.now]
        /\ \A later \in {1, CacheTtl * 500, CacheTtl * 1000} :
              LET again == GetCachedWindow(rs.out.cache, rs.app,
                                           rs.now + later, rs.env.desk)
              IN  /\ again.win = rs.out.win
                  /\ again.connects = 1
                  /\ again.cache =
                        [rs.out.cache EXCEPT
                            ![ResolveKey].last_seen = rs.now + later]

\* an entry of exactly 60 seconds was reconnected beside an entry of another
\* application that is older than 60 seconds, which stayed in the cache
C32_Witness ==
    /\ Reconnected
    /\ EntryAge = CacheTtl * 1000
    /\ OtherKey \in DOMAIN rs.cache
    /\ OtherKey # ResolveKey
    /\ rs.now - rs.cache[OtherKey].last_seen > CacheTtl * 1000
    /\ rs.out.cache[OtherKey] = rs.cache[OtherKey]
    /\ rs.out.cache[ResolveKey].last_seen = rs.now

\* the title scan took the score of window i of the desktop
ScoreTaken(i) ==
    \E k \in 1..Len(rs.out.trace) :
        rs.out.trace[k] = Event("score", rs.env.desk[i].h)

\* the process scan ran over the lines of tasklist
ProcessesScanned == rs.done /\ rs.env.tasklist_ok /\ "tasklist" \in TraceOps

\* line i of tasklist has a PID and a name that a search term matches
ProcessMatches(i) ==
    LET terms == SearchTerms(Strip(Lower(rs.app)))
    IN  /\ rs.env.procs[i].pid >= 0
        /\ \E t \in 1..Len(terms) :
              \/ Contains(terms[t], rs.env.procs[i].name)
              \/ StartsWith(rs.env.procs[i].name, terms[t])

\* the connect to the process of line i raises, gives a window
ConnectFails(i) == ConnectProcess(rs.env.desk, rs.env.procs[i].pid).raised
ConnectGives(i) == ConnectProcess(rs.env.desk, rs.env.procs[i].pid).win # None

\* the process scan tried to connect to the process of line i
Tried(i) ==
    \E k \in 1..Len(rs.out.trace) :
        rs.out.trace[k] = Event("connect_pid", rs.env.procs[i].pid)

\* C33: a window whose title or handle query raises does not end the title
\* scan, every window with a readable title is scored; a process whose
\* connect raises does not end the process scan, every matching process up
\* to the first one that gives a window is tried
C33_FailuresDoNotAbortScans ==
    /\ ScanRan => \A i \in Scored(rs.env.desk) : ScoreTaken(i)
    /\ ProcessesScanned =>
          \A i \in 1..Len(rs.env.procs) :
              (/\ ProcessMatches(i)
               /\ \A j \in 1..(i - 1) : ProcessMatches(j) => ~ConnectGives(j))
                  => Tried(i)

\* a window was scored after one whose title query raised
C33_WitnessTitle ==
    /\ ScanRan
    /\ Len(rs.env.desk) = 2
    /\ rs.env.desk[1].st = "title_raises"
    /\ 2 \in Scored(rs.env.desk)
    /\ ScoreTaken(2)

\* a window was scored after one whose handle query raised
C33_WitnessHandle ==
    /\ ScanRan
    /\ Len(rs.env.desk) = 2
    /\ rs.env.desk[1].st = "handle_raises"
    /\ Scored(rs.env.desk) = {1, 2}
    /\ ScoreTaken(1)
    /\ ScoreTaken(2)

\* a process was tried, and gave the window, after one whose connect raised
C33_Witness ==
    /\ ProcessesScanned
    /\ Len(rs.env.desk) = 1
    /\ Len(rs.env.procs) = 2
    /\ ProcessMatches(1) /\ ConnectFails(1) /\ Tried(1)
    /\ ProcessMatches(2) /\ Tried(2)
    /\ rs.out.win = rs.env.desk[1].h

\* the strategy that returned the window of find_window: the one of the last
\* step of its trace
ReturnedBy == StrategyOf(rs.out.trace[Len(rs.out.trace)])

\* find_window returned a window through the title scan or a title regex
ReturnedByTitle == rs.done /\ rs.out.win # None /\ ReturnedBy \in {2, 3, 4}

\* the score of the title of the window returned
ReturnedScore ==
    ScoreOf(rs.app, rs.env.desk[WindowByH(rs.env.desk, rs.out.win)])

\* C35: a window that find_window returns through the scored title scan, the
\* regex of the whole name or the regex of the primary word has a title that
\* scores at least 2 against the name
C35_TitleStrategiesScoreTwo ==
    ReturnedByTitle => ReturnedScore >= MinScanScore

\* what holds of C35: where the handle of every window can be read, a window
\* returned through the title scan or the regex of the whole name scores at
\* least 2
C35_ScanAndExactScoreTwo ==
    (/\ ReturnedByTitle
     /\ ReturnedBy \in {2, 3}
     /\ \A i \in 1..Len(rs.env.desk) : rs.env.desk[i].st # "handle_raises")
        => ReturnedScore >= MinScanScore

\* the title scan and the regex of the whole name each returned a window
C35_ScanReturned == ReturnedByTitle /\ ReturnedBy = 2 /\ ReturnedScore = 2
C35_ExactReturned == ReturnedByTitle /\ ReturnedBy = 3

(***************************************************************************)
(* smart_find under test                                                   *)
(***************************************************************************)

\* a window of 400 x 300 at (100, 50), one of no size, one wider than MaxWidth
NormalRect == [x |-> 100, y |-> 50, w |-> 400, h |-> 300]
EmptyRect == [x |-> 100, y |-> 50, w |-> 0, h |-> 0]
WideRect == [x |-> 100, y |-> 50, w |-> 2560, h |-> 300]

\* a text of 40 x 20 or 30 x 20 at one of four places of the normal window:
\* in the menu bar (and the sidebar), in the center, in the sidebar below
\* the menu bar, in the bottom right corner (in no region)
Token(text, conf, place) ==
    CASE place = "menu" -> [text |-> text, conf |-> conf, x |-> 10, y |-> 10, w |-> 40, h |-> 20]
      [] place = "center" -> [text |-> text, conf |-> conf, x |-> 260, y |-> 100, w |-> 30, h |-> 20]
      [] place = "side" -> [text |-> text, conf |-> conf, x |-> 10, y |-> 250, w |-> 40, h |-> 20]
      [] place = "corner" -> [text |-> text, conf |-> conf, x |-> 350, y |-> 270, w |-> 40, h |-> 20]

TokenPool ==
    {Token(S_aba, RegionMinConf, "center"),
     Token(S_aba, RegionMinConf - 1, "side"),
     Token(S_abba, 90, "menu"),
     Token(S_c, 90, "corner"),
     Token(S_aba, FullMinConf, "corner"),
     Token(S_aba, FullMinConf - 1, "menu"),
     Token(<<" ">>, 95, "center"),
     Token(S_abcc, 90, "side"),
     Token(S_Aba_c, 50, "side"),
     Token(S_abcbccc, 90, "center")}

Screens(n) == UNION {[1..k -> TokenPool] : k \in 0..n}

\* screens of DumpCap - 1, DumpCap and DumpCap + 1 texts that match nothing
LongScreens ==
    {[i \in 1..k |-> Token(S_c, 90, "corner")] : k \in (DumpCap - 1)..(DumpCap + 1)}

Element(name, auto_id, ctype) ==
    [name |-> name, auto_id |-> auto_id, ctype |-> ctype,
     rect |-> [x |-> 120, y |-> 80, w |-> 41, h |-> 21]]

\* UIA trees: empty; an element named as the text; one whose name holds the
\* text; one whose automation id is the text; two elements named alike
UiaTrees ==
    {<<>>,
     <<Element(S_aba, S_c, "Button")>>,
     <<Element(S_aba_c, S_c, "Edit")>>,
     <<Element(S_c, S_aba, "Button")>>,
     <<Element(S_aba, S_c, "Button"), Element(S_aba, S_c, "Button")>>}

LocateTexts == {S_aba, S_abb}
LocateTypes == {"", "button"}
LocateHints == {"", "center", "nowhere"}

\* a sound window: every tree, screen, text, type, hint, with and without
\* the OCR engine
SoundInputs ==
    {[window |-> [NoWindow EXCEPT !.rect = NormalRect, !.tree = t, !.screen = s],
      text |-> x, type |-> y, hint |-> h, tess |-> a, done |-> FALSE,
      out |-> [res |-> NoResult, trace |-> <<>>]] :
        t \in UiaTrees, s \in Screens(MaxTokens) \cup LongScreens,
        x \in LocateTexts, y \in LocateTypes, h \in LocateHints, a \in BOOLEAN}

\* windows of no size or too wide, and windows whose queries raise
FaultyInputs ==
    {[window |-> [rect |-> r, rect_ok |-> ro, tree |-> t, uia_ok |-> uo,
                  screen |-> s, ocr_ok |-> oo],
      text |-> S_aba, type |-> "", hint |-> h, tess |-> a, done |-> FALSE,
      out |-> [res |-> NoResult, trace |-> <<>>]] :
        r \in {NormalRect, EmptyRect, WideRect}, ro \in BOOLEAN, uo \in BOOLEAN,
        oo \in BOOLEAN, t \in {<<>>, <<Element(S_aba, S_c, "Button")>>},
        s \in Screens(1), h \in {"", "center"}, a \in BOOLEAN}

InitLocate ==
    /\ lc \in SoundInputs \cup FaultyInputs
    /\ sc = NoScore
    /\ rs = NoResolve
    /\ dg = NoDialog
    /\ NoDaemon

\* result = smart_find(window, element_text, element_type, location_hint)
Locate ==
    /\ ~lc.done
    /\ lc' = [lc EXCEPT !.done = TRUE,
                        !.out = SmartFind(lc.window, lc.text, lc.type, lc.hint, lc.tess)]
    /\ UNCHANGED <<sc, rs, dg>>
    /\ UNCHANGED daemonVars

SpecLocate == InitLocate /\ [][Locate]_vars

\* the positions of a trace that hold a call of Tier 2 or Tier 3, a screen
\* capture or a text recognition
LaterTierSteps(trace) ==
    {i \in 1..Len(trace) : trace[i].op \in {"tier2", "tier3", "capture", "ocr"}}

Tier1Matched == LocateViaAccessibility(lc.window, lc.text, lc.type).found

\* the region scan called at position i of the trace returned a match
RegionMatchedAt(i) ==
    /\ lc.out.trace[i].op = "tier2"
    /\ LocateViaOcrRegion(lc.window, lc.text, lc.out.trace[i].arg, lc.tess).res.found

\* C6: when Tier 1 returns a match no region scan and no full scan is
\* invoked; when a region scan returns a match no later region scan and no
\* full scan is invoked
C6_CascadeShortCircuit ==
    lc.done =>
        LET tr == lc.out.trace
        IN  /\ Tier1Matched =>
                /\ LaterTierSteps(tr) = {}
                /\ lc.out.res.found
                /\ lc.out.res.has_element
            /\ \A i \in 1..Len(tr) :
                RegionMatchedAt(i) =>
                    /\ \A j \in (i + 1)..Len(tr) : tr[j].op \notin {"tier2", "tier3"}
                    /\ lc.out.res.found
                    /\ lc.out.res.region_hint # ""

\* C6 witness: Tier 1 matched on a window whose screen shows the text to an
\* available OCR engine, and nothing but Tier 1 was called
C6_Witness ==
    /\ lc.done
    /\ lc.tess
    /\ lc.window.rect = NormalRect /\ lc.window.rect_ok /\ lc.window.ocr_ok
    /\ Tier1Matched
    /\ lc.out.trace = <<Call("tier1", "")>>
    /\ \E i \in 1..Len(lc.window.screen) :
            lc.window.screen[i].text = lc.text /\ lc.window.screen[i].conf >= RegionMinConf

\* C7: without the OCR engine, when Tier 1 finds nothing, smart_find
\* captures no screen and recognizes no text, and returns found = false
\* with an error and a hint that names the engine and how to install it
C7_RemediationWithoutOcr ==
    (lc.done /\ ~lc.tess /\ ~Tier1Matched) =>
        /\ \A i \in 1..Len(lc.out.trace) : lc.out.trace[i].op \notin {"capture", "ocr"}
        /\ ~lc.out.res.found
        /\ lc.out.res.error = "tesseract_missing"
        /\ lc.out.res.missing = TesseractName
        /\ lc.out.res.install_hint = InstallHint

\* C7 witness: the engine is missing, Tier 1 found nothing although the
\* screen shows the text, and the result carries the hint
C7_Witness ==
    /\ lc.done
    /\ ~lc.tess
    /\ ~Tier1Matched
    /\ lc.out.res.install_hint = InstallHint
    /\ \E i \in 1..Len(lc.window.screen) : lc.window.screen[i].text = lc.text

\* the texts Tier 3 recognizes on the whole window, in recognition order
Recognized ==
    LET r == lc.window.rect
        num == IF r.w > MaxWidth THEN MaxWidth ELSE 1
        den == IF r.w > MaxWidth THEN r.w ELSE 1
    IN  OcrItemsFrom(OcrData(lc.window, r, num, den), 1, FullMinConf, r.x, r.y, num, den)

\* C8: with the OCR engine, when no tier produces a match the result is no
\* bare failure: it has found = false, is flagged for interpretation and
\* carries the first min(50, n) recognized texts with their rectangles, in
\* recognition order
C8_DumpOnEveryMiss ==
    (lc.done /\ lc.tess /\ ~lc.out.res.found) =>
        /\ lc.out.res.needs_llm
        /\ lc.out.res.has_dump
        /\ Len(lc.out.res.ocr_dump) = Min(50, Len(Recognized))
        /\ \A i \in 1..Len(lc.out.res.ocr_dump) :
                /\ lc.out.res.ocr_dump[i].text = Recognized[i].text
                /\ lc.out.res.ocr_dump[i].rect = Recognized[i].rect

\* C8 holds of the misses on which at least one text was recognized
C8_DumpWhenTextRecognized ==
    (lc.window.rect_ok /\ lc.window.ocr_ok /\ lc.window.rect.w > 0
        /\ Recognized # <<>>) => C8_DumpOnEveryMiss

\* the entries of OCR data whose trimmed text is not empty and whose
\* confidence is at least the floor, in recognition order
Kept(data, floor) ==
    SelectSeq(data, LAMBDA d : Strip(d.text) # <<>> /\ d.conf >= floor)

\* the items are these entries, one for one
SameTokens(items, data) ==
    /\ Len(items) = Len(data)
    /\ \A i \in 1..Len(items) :
            /\ items[i].text = Strip(data[i].text)
            /\ items[i].confidence = data[i].conf

\* what the text recognition returns for the region of a hint, and the
\* candidates Tier 2 builds from it
RegionData(hint) ==
    OcrData(lc.window, GetRegionRect(lc.window.rect, hint), 1, 1)

RegionItems(hint) ==
    LET region == GetRegionRect(lc.window.rect, hint)
    IN  OcrItemsFrom(RegionData(hint), 1, RegionMinConf, region.x, region.y, 1, 1)

\* what the text recognition returns for the whole window
FullData ==
    LET r == lc.window.rect
    IN  IF r.w > MaxWidth THEN OcrData(lc.window, r, MaxWidth, r.w)
        ELSE OcrData(lc.window, r, 1, 1)

RegionMethods == {"ocr_region_exact", "ocr_region_fuzzy"}
FullMethods == {"ocr_full_exact", "ocr_full_fuzzy"}

\* C21: a recognized token is a candidate of a Tier 2 scan if and only if
\* its trimmed text is not empty and its confidence is at least 30, and a
\* candidate of Tier 3 if and only if its trimmed text is not empty and
\* its confidence is at least 20; a match carries such a confidence
C21_ConfidenceFloors ==
    (lc.done /\ lc.tess /\ lc.window.rect_ok /\ lc.window.ocr_ok) =>
        /\ \A i \in 1..Len(lc.out.trace) :
                lc.out.trace[i].op = "tier2" =>
                    SameTokens(RegionItems(lc.out.trace[i].arg),
                               Kept(RegionData(lc.out.trace[i].arg), 30))
        /\ (\E i \in 1..Len(lc.out.trace) : lc.out.trace[i].op = "tier3") =>
                SameTokens(Recognized, Kept(FullData, 20))
        /\ lc.out.res.method \in RegionMethods => lc.out.res.confidence >= 30
        /\ lc.out.res.method \in FullMethods => lc.out.res.confidence >= 20

\* C21 witness: the sidebar shows the text with confidence 29 and with
\* confidence 19; the scan of the sidebar passes both over, and Tier 3
\* matches the one of confidence 29
C21_Witness ==
    /\ lc.done
    /\ lc.hint = ""
    /\ \E i \in 1..Len(lc.out.trace) : lc.out.trace[i] = Call("tier2", "sidebar")
    /\ \E i, j \in 1..Len(RegionData("sidebar")) :
            /\ RegionData("sidebar")[i].text = lc.text
            /\ RegionData("sidebar")[i].conf = 29
            /\ RegionData("sidebar")[j].text = lc.text
            /\ RegionData("sidebar")[j].conf = 19
    /\ RegionItems("sidebar") = <<>>
    /\ lc.out.res.method = "ocr_full_exact"
    /\ lc.out.res.confidence = 29


\* the elements of the window under test that pass the type filter of
\* Tier 1 and whose name is the text, whose name holds the text, whose
\* automation id is the text
TypeFits(el) ==
    ControlTypeOf(lc.type) = "" \/ el.ctype = ControlTypeOf(lc.type)

NamedExactly ==
    {i \in 1..Len(lc.window.tree) :
        TypeFits(lc.window.tree[i]) /\ lc.window.tree[i].name = lc.text}

NamedPartly ==
    {i \in 1..Len(lc.window.tree) :
        TypeFits(lc.window.tree[i]) /\ Contains(lc.text, lc.window.tree[i].name)}

IdentifiedBy ==
    {i \in 1..Len(lc.window.tree) :
        TypeFits(lc.window.tree[i]) /\ lc.window.tree[i].auto_id = lc.text}

\* C28: Tier 1 returns the first of exact name equality, substring name
\* match and identifier match that exists, tagged with that sub-strategy:
\* when an element of the given type is named as the text the result is
\* found with the exact tag, and Tier 1 reports no match only when none of
\* the three sub-strategies has an element
C28_Tier1Order ==
    (lc.done /\ lc.window.uia_ok) =>
        /\ NamedExactly # {} =>
                lc.out.res.found /\ lc.out.res.method = "accessibility_exact"
        /\ (NamedExactly = {} /\ NamedPartly # {}) =>
                lc.out.res.found /\ lc.out.res.method = "accessibility_partial"
        /\ (NamedPartly = {} /\ IdentifiedBy # {}) =>
                lc.out.res.found /\ lc.out.res.method = "accessibility_auto_id"
        /\ (NamedPartly = {} /\ IdentifiedBy = {}) => ~lc.out.res.has_element

\* the hints of the region scans smart_find called, in order
ScansOf(trace) ==
    LET calls == SelectSeq(trace, LAMBDA c : c.op = "tier2")
    IN  [i \in 1..Len(calls) |-> calls[i].arg]

\* the hints _get_region_rect knows
KnownRegions ==
    {"menu_bar", "top", "top_half", "bottom", "bottom_half", "sidebar", "left",
     "right", "center", "top_left", "top_right"}

\* the scan of the region of a hint finds the text
RegionHas(hint) ==
    LocateViaOcrRegion(lc.window, lc.text, hint, lc.tess).res.found

\* the steps of Tier 3 in the trace, and those of Tier 2
Tier3Steps(trace) == {i \in 1..Len(trace) : trace[i].op = "tier3"}
Tier2Steps(trace) == {i \in 1..Len(trace) : trace[i].op = "tier2"}

\* the scans made are the first n of menu_bar, center, sidebar, n being
\* the place of the first region that has the text, 3 if none has
ScannedInOrder(scans) ==
    /\ scans # <<>>
    /\ Len(scans) <= 3
    /\ scans = SubSeq(<<"menu_bar", "center", "sidebar">>, 1, Len(scans))
    /\ \A i \in 1..(Len(scans) - 1) : ~RegionHas(scans[i])
    /\ Len(scans) < 3 => RegionHas(scans[Len(scans)])

\* C29: with the OCR engine and no Tier 1 match, smart_find without a
\* hint scans menu_bar, center, sidebar in that order, stops at the first
\* region that matches and runs Tier 3 only after all three missed; with
\* a hint it scans that one region, the whole window if the hint is not
\* known, and then runs Tier 3 if the scan missed
C29_RegionOrder ==
    (lc.done /\ lc.tess /\ ~Tier1Matched) =>
        LET tr == lc.out.trace
            scans == ScansOf(tr)
            matched == RegionHas(scans[Len(scans)])
        IN  /\ IF lc.hint = "" THEN ScannedInOrder(scans)
               ELSE scans = <<lc.hint>>
            /\ Tier3Steps(tr) = {} <=> matched
            /\ \A i \in Tier2Steps(tr), j \in Tier3Steps(tr) : i < j
            /\ matched =>
                    /\ lc.out.res.method \in RegionMethods
                    /\ lc.out.res.region_hint = scans[Len(scans)]
            /\ (lc.window.rect_ok /\ lc.hint \notin KnownRegions \cup {""}) =>
                    matched = RegionScan(lc.window, lc.text, lc.hint,
                                         lc.window.rect).res.found

\* C29 witness: no hint, the text is in the corner of the window, outside
\* the three regions: all three were scanned in order, then Tier 3 found it
C29_Witness ==
    /\ lc.done
    /\ lc.hint = ""
    /\ ScansOf(lc.out.trace) = <<"menu_bar", "center", "sidebar">>
    /\ Tier3Steps(lc.out.trace) # {}
    /\ lc.out.res.method = "ocr_full_exact"

\* the smallest of a set of numbers that is not empty
Least(S) == CHOOSE i \in S : \A j \in S : i <= j

\* the candidates that contain the text, whatever the case
Containing(cands) ==
    {i \in 1..Len(cands) : Contains(Lower(lc.text), Lower(cands[i].text))}

\* the candidates whose fuzzy score is above the threshold and below no
\* other candidate's score
BestAbove(cands, threshold) ==
    {i \in 1..Len(cands) :
        /\ FracGreater(FuzzyScore(lc.text, cands[i].text), threshold)
        /\ \A j \in 1..Len(cands) :
                ~FracGreater(FuzzyScore(lc.text, cands[j].text),
                             FuzzyScore(lc.text, cands[i].text))}

\* the result is the candidate at place i, with the tag
IsCandidate(res, cands, i, tag) ==
    /\ res.found
    /\ res.method = tag
    /\ res.text = cands[i].text
    /\ res.rect = cands[i].rect
    /\ res.confidence = cands[i].confidence

\* the result of a scan over the candidates is the first that contains the
\* text, else the first of the best above the threshold, else no match
PicksFrom(res, cands, threshold, exact_tag, fuzzy_tag) ==
    IF Containing(cands) # {}
    THEN IsCandidate(res, cands, Least(Containing(cands)), exact_tag)
    ELSE IF BestAbove(cands, threshold) # {}
    THEN IsCandidate(res, cands, Least(BestAbove(cands, threshold)), fuzzy_tag)
    ELSE ~res.found

\* C30: a scan of Tier 2 or Tier 3 returns the first candidate, in
\* recognition order, that contains the text whatever the case, with the
\* exact tag; if there is none, the candidate with the highest fuzzy score
\* strictly above 0.6 (Tier 2) or 0.55 (Tier 3), the earliest on ties,
\* with the fuzzy tag; and no match if no score is above the threshold
C30_ExactThenBestFuzzy ==
    (lc.done /\ lc.tess /\ lc.window.rect_ok /\ lc.window.ocr_ok
        /\ lc.window.rect.w > 0) =>
        /\ \A i \in Tier2Steps(lc.out.trace) :
                PicksFrom(LocateViaOcrRegion(lc.window, lc.text,
                                             lc.out.trace[i].arg, lc.tess).res,
                          RegionItems(lc.out.trace[i].arg), <<6, 10>>,
                          "ocr_region_exact", "ocr_region_fuzzy")
        /\ lc.out.res.method \in RegionMethods =>
                PicksFrom(lc.out.res,
                          RegionItems(ScansOf(lc.out.trace)[Len(ScansOf(lc.out.trace))]),
                          <<6, 10>>, "ocr_region_exact", "ocr_region_fuzzy")
        /\ Tier3Steps(lc.out.trace) # {} =>
                PicksFrom(lc.out.res, Recognized, <<55, 100>>,
                          "ocr_full_exact", "ocr_full_fuzzy")

\* the center shows a text whose fuzzy score for "abb" is 0.6: the scan of
\* the center passed it over, and Tier 3 took it
C30_AtThreshold ==
    /\ lc.done
    /\ lc.hint = "center"
    /\ Len(RegionItems("center")) = 1
    /\ FuzzyScore(lc.text, RegionItems("center")[1].text) = <<6, 10>>
    /\ ~RegionHas("center")
    /\ lc.out.res.method = "ocr_full_fuzzy"

\* C30 witness: Tier 3 read "aba" twice; neither contains "abb", both
\* score 2/3, and the result is the first of them, tagged fuzzy
C30_Witness ==
    /\ lc.done
    /\ lc.out.res.method = "ocr_full_fuzzy"
    /\ Len(Recognized) = 2
    /\ Recognized[1].text = Recognized[2].text
    /\ Recognized[1].rect # Recognized[2].rect
    /\ Containing(Recognized) = {}
    /\ lc.out.res.rect = Recognized[1].rect

(***************************************************************************)
(* The desktop the daemon runs on.  Windows open and close between         *)
(* requests; world is the set of handles that are open.                    *)
(***************************************************************************)

S_save_as == <<"S", "a", "v", "e", " ", "a", "s">>

\* every window there can be, in Z order
AllWindows ==
    <<[h |-> 11, title |-> S_aba_abb, pid |-> 1, st |-> "ok"],
      [h |-> 12, title |-> S_c, pid |-> 2, st |-> "ok"],
      [h |-> 13, title |-> S_save_as, pid |-> 3, st |-> "ok"]>>

DeskOf(w) == SelectSeq(AllWindows, LAMBDA x : x.h \in w)

EnvOf(w) == [NoEnv EXCEPT !.desk = DeskOf(w)]

\* what the windows hold: window 11 has a button named "aba", a pane with
\* no text, a button left of the window and an edit field named "c", and
\* shows the text "abba" in its menu bar; window 12 is wide and empty;
\* window 13 is a small dialog
Content(h) ==
    IF h = 11
    THEN [NoWindow EXCEPT
            !.rect = NormalRect,
            !.tree = <<Element(S_aba, S_c, "Button"),
                       [Element(<<>>, <<>>, "Pane") EXCEPT !.rect.y = 120],
                       [Element(S_abb, <<>>, "Button") EXCEPT !.rect.x = 40],
                       [Element(S_c, S_abb, "Edit") EXCEPT !.rect.y = 200]>>,
            !.screen = <<Token(S_abba, 90, "menu")>>]
    ELSE IF h = 12 THEN [NoWindow EXCEPT !.rect = WideRect]
    ELSE [NoWindow EXCEPT !.rect = NormalRect]

(***************************************************************************)
(* Tool handlers.  A handler runs on s = [cache, som, now, world, acts]:   *)
(* the two session globals, the clock, the open windows and the OS calls   *)
(* made so far.  fx tells how the OS answers during the call:              *)
(*   focus_ok     set_focus() succeeds                                     *)
(*   uia_click_ok element.click_input() succeeds                           *)
(*   mouse_ok     pyautogui input calls succeed (False: fail-safe raised)  *)
(*   query_ok     Desktop(), window_text(), rectangle() and screenshot()   *)
(*                succeed where the handler calls them unprotected         *)
(*   focus_moves  the input moves the keyboard focus                       *)
(*   dialog       the input opens the dialog window 13                     *)
(*   launch       the poll of handle_navigate at which window 11 opens,    *)
(*                0 for never                                              *)
(*   appears      the time after the start of handle_wait_for at which     *)
(*                window 11 opens, in milliseconds, -1 for never           *)
(*   launcher     how handle_navigate starts the application: "shortcut",  *)
(*                "direct_exe" or "start_menu"                             *)
(* A handler returns [s, result, raised]; raised tells that an exception   *)
(* left the handler.  A result is a record with every key; a key the       *)
(* program leaves out holds its value in NoOutcome.  Where a handler       *)
(* binds a value and goes on, the model passes the value on to an          *)
(* operator for the rest of the handler.                                   *)
(***************************************************************************)

Act(op, arg, x, y) == [op |-> op, arg |-> arg, x |-> x, y |-> y]

NoOutcome ==
    [error |-> "", done |-> FALSE, verb |-> "", method |-> "", via |-> "",
     x |-> -1, y |-> -1, som_id |-> -1, verified |-> FALSE,
     state_changed |-> FALSE, dialog_detected |-> FALSE,
     dialog_title |-> <<>>, warning |-> FALSE, find |-> NoResult,
     mode |-> "", count |-> -1, text_length |-> -1, tool |-> "",
     traceback |-> FALSE, windows |-> <<>>]

Ret(s, r) == [s |-> s, result |-> r, raised |-> FALSE]
Raised(s) == [s |-> s, result |-> NoOutcome, raised |-> TRUE]
Err(verb, e) == [NoOutcome EXCEPT !.verb = verb, !.error = e]
Done(verb) == [NoOutcome EXCEPT !.verb = verb, !.done = TRUE]
Did(s, a) == [s EXCEPT !.acts = Append(@, a)]
Sleep(s, ms) == [s EXCEPT !.now = @ + ms]

\* what find_window returned, and the session after it: [win, s]; the act
\* tells whether the windows were enumerated
Found(s, fw) ==
    [win |-> fw.win,
     s |-> Did([s EXCEPT !.cache = fw.cache],
               Act("find_window",
                   IF \E i \in 1..Len(fw.trace) : fw.trace[i].op = "enumerate"
                   THEN "scan" ELSE "",
                   fw.win, 0))]

\* window = find_window(app_name): [win, s]
Find(s, app_name) ==
    Found(s, FindWindow(app_name, s.cache, s.now, EnvOf(s.world)))

\* the settle delay of focus_window, in milliseconds
SettleMs == 100

\* focus_window(window); the handlers ignore what it returns
FocusWindow(s, win, fx) ==
    IF fx.focus_ok THEN Sleep(Did(s, Act("focus", "", win, 0)), SettleMs)
    ELSE Did(s, Act("focus_failed", "", win, 0))

\* list_elements(window): the visible elements of the UIA tree
ListElements(window) ==
    IF ~window.uia_ok THEN <<>>
    ELSE LET vis == SelectSeq(window.tree,
                              LAMBDA c : c.rect.w > 0 /\ c.rect.h > 0)
         IN  [i \in 1..Len(vis) |->
                [text |-> vis[i].name, control_type |-> vis[i].ctype,
                 rect |-> vis[i].rect, auto_id |-> vis[i].auto_id]]

\* interactive_types of _read_state_visual, as UIA spells the control types
InteractiveTypes ==
    {"Button", "Edit", "CheckBox", "RadioButton", "ComboBox", "ListItem",
     "MenuItem", "TabItem", "Link", "Hyperlink", "Slider", "Spinner",
     "TreeItem"}

\* the cap on labeled elements
SomCap == 50

\* the labeling loop of _read_state_visual from element i on; som_id is the
\* last id given, rect the captured window rectangle
RECURSIVE SomFrom(_, _, _, _, _)
SomFrom(elements, i, som_id, rect, acc) ==
    IF i > Len(elements) THEN acc
    ELSE LET el == elements[i]
             id == som_id + 1
             ex == el.rect.x - rect.x
             ey == el.rect.y - rect.y
             labeled == Append(acc, [som_id |-> id, text |-> el.text,
                                     type |-> el.control_type,
                                     rect |-> el.rect])
         IN  IF el.control_type \notin InteractiveTypes /\ el.text = <<>>
             THEN SomFrom(elements, i + 1, som_id, rect, acc)
             ELSE IF ex < 0 \/ ey < 0 \/ ex > rect.w \/ ey > rect.h
             THEN SomFrom(elements, i + 1, id, rect, acc)
             ELSE IF id >= SomCap THEN labeled
             ELSE SomFrom(elements, i + 1, id, rect, labeled)

\* a _read_state_visual that adds its labels to the stored ones
StoreSomAppends(s, win, som_elements) ==
    Ret([Did(s, Act("capture", "window", win, 0))
            EXCEPT !.som = s.som \o som_elements],
        [Done("read_state") EXCEPT !.mode = "visual",
                                   !.count = Len(som_elements)])

\* the end of _read_state_visual: the labels are stored in
\* _last_som_elements and returned
StoreSom(s, win, som_elements) ==
    Ret([Did(s, Act("capture", "window", win, 0)) EXCEPT !.som = som_elements],
        [Done("read_state") EXCEPT !.mode = "visual",
                                   !.count = Len(som_elements)])

\* _read_state_visual: capture, label, store
ReadStateVisual(s, win, elements, fx) ==
    IF ~fx.query_ok \/ ~Content(win).rect_ok THEN Raised(s)
    ELSE StoreSom(s, win, SomFrom(elements, 1, 0, Content(win).rect, <<>>))

\* handle_read_state on the window found
ReadStateOn(args, s, win, elements, fx) ==
    IF args.mode = "visual" THEN ReadStateVisual(s, win, elements, fx)
    ELSE IF ~fx.query_ok THEN Raised(s)
    ELSE Ret(s, [Done("read_state") EXCEPT !.mode = "text",
                                           !.count = Len(elements)])

\* handle_read_state after window = find_window(app_name)
ReadStateOf(args, f, fx) ==
    IF f.win = None THEN Ret(f.s, Err("read_state", "window_not_found"))
    ELSE ReadStateOn(args,
                     Did(FocusWindow(f.s, f.win, fx),
                         Act("list_elements", "", f.win, 0)),
                     f.win, ListElements(Content(f.win)), fx)

\* handle_read_state
HandleReadState(args, s, tess, fx) ==
    IF args.app_name # <<>> THEN ReadStateOf(args, Find(s, args.app_name), fx)
    ELSE IF ~fx.query_ok THEN Raised(s)
    ELSE Ret(Did(s, Act("enumerate", "", 0, 0)),
             [Done("read_state") EXCEPT
                !.count = Len(SelectSeq(DeskOf(s.world),
                                        LAMBDA w : Strip(w.title) # <<>>))])

\* the calls of a smart_find trace as acts
TraceActs(trace) == [i \in 1..Len(trace) |-> Act(trace[i].op, trace[i].arg, 0, 0)]

\* what smart_find returned, and the session after it: [res, s]
Located(s, sf) ==
    [res |-> sf.res, s |-> [s EXCEPT !.acts = @ \o TraceActs(sf.trace)]]

\* result = smart_find(window, ...): [res, s]
SmartFindIn(s, win, element_text, element_type, location_hint, tess) ==
    Located(s, SmartFind(Content(win), element_text, element_type,
                         location_hint, tess))

\* the result of handle_find_element: what smart_find returned
FindElementResult(l) ==
    Ret(l.s, [NoOutcome EXCEPT !.verb = "find_element", !.done = l.res.found,
                               !.method = l.res.method, !.error = l.res.error,
                               !.find = l.res])

\* handle_find_element after window = find_window(app_name)
FindElementIn(args, f, tess, fx) ==
    IF f.win = None THEN Ret(f.s, Err("find_element", "window_not_found"))
    ELSE FindElementResult(
            SmartFindIn(FocusWindow(f.s, f.win, fx), f.win, args.element_text,
                        args.element_type, args.location_hint, tess))

\* handle_find_element
HandleFindElement(args, s, tess, fx) ==
    IF args.app_name = <<>>
    THEN Ret(s, Err("find_element", "app_name_required"))
    ELSE IF args.element_text = <<>>
    THEN Ret(s, Err("find_element", "element_text_required"))
    ELSE FindElementIn(args, Find(s, args.app_name), tess, fx)

\* _get_focused_info(): a snapshot of the focused element
Snapshot(s, when) == Did(s, Act("snapshot", when, 0, 0))

\* dialog_keywords of _check_for_dialog
DialogKeywords ==
    <<<<"d", "o", " ", "y", "o", "u", " ", "w", "a", "n", "t">>,
      <<"a", "r", "e", " ", "y", "o", "u", " ", "s", "u", "r", "e">>,
      <<"n", "o", "t", " ", "r", "e", "s", "p", "o", "n", "d", "i", "n", "g">>,
      <<"h", "a", "s", " ", "s", "t", "o", "p", "p", "e", "d">>,
      <<"s", "a", "v", "e", " ", "c", "h", "a", "n", "g", "e", "s">>,
      <<"s", "a", "v", "e", " ", "a", "s">>,
      <<"c", "o", "n", "f", "i", "r", "m">>,
      <<"p", "e", "r", "m", "i", "s", "s", "i", "o", "n">>>>

\* the largest window taken for a dialog
MaxDialogWidth == 800
MaxDialogHeight == 600

\* the test _check_for_dialog makes on one window w = [title, st, rect,
\* rect_ok]; a rectangle() that raises is passed over
IsDialog(w, app_name) ==
    /\ w.st # "title_raises"
    /\ w.title # <<>>
    /\ ~(app_name # <<>> /\ Contains(Lower(app_name), Lower(w.title)))
    /\ ~(/\ w.rect_ok
         /\ \/ w.rect.w > MaxDialogWidth
            \/ w.rect.h > MaxDialogHeight)
    /\ \E k \in 1..Len(DialogKeywords) :
            Contains(DialogKeywords[k], Lower(w.title))

\* the title of the first of the windows idx of the desktop, <<>> for none
FirstTitle(desk, idx) ==
    IF idx = {} THEN <<>>
    ELSE desk[CHOOSE i \in idx : \A j \in idx : i <= j].title

\* the loop "for w in desktop.windows()" of _check_for_dialog over the
\* windows wins: the title of the first window flagged, <<>> for None
DetectDialog(app_name, wins) ==
    FirstTitle(wins, {i \in 1..Len(wins) : IsDialog(wins[i], app_name)})

\* the windows of a desktop as _check_for_dialog sees them
Seen(desk) ==
    [i \in 1..Len(desk) |->
        [title |-> desk[i].title, st |-> desk[i].st,
         rect |-> Content(desk[i].h).rect,
         rect_ok |-> Content(desk[i].h).rect_ok]]

\* _check_for_dialog(app_name): the title of the first window flagged, <<>>
\* for None
CheckForDialog(app_name, open, fx) ==
    IF ~fx.query_ok THEN <<>> ELSE DetectDialog(app_name, Seen(DeskOf(open)))

\* the pause between an input and the second snapshot, in milliseconds
VerifyMs == 150

\* a verification that turns the click into a failure when a dialog is up
VerifiedDialogFails(s, r, d, fx) ==
    IF d = <<>>
    THEN Ret(s, [r EXCEPT !.verified = TRUE, !.state_changed = fx.focus_moves])
    ELSE Ret(s, [Err("click", "unexpected_dialog") EXCEPT
                    !.verified = TRUE, !.dialog_detected = TRUE,
                    !.dialog_title = d])

\* the result of a verified click: the comparison of the snapshots and the
\* dialog d merged in
Verified(s, r, d, fx) ==
    Ret(s, [r EXCEPT !.verified = TRUE, !.state_changed = fx.focus_moves,
                     !.dialog_detected = (d # <<>>), !.dialog_title = d])

\* post-action verification of handle_click: pause, second snapshot,
\* comparison, dialog detection
Verify(s, r, app_name, fx) ==
    Verified(Did(Snapshot(Sleep(s, VerifyMs), "post"),
                 Act("check_dialog", "", 0, 0)),
             r, CheckForDialog(app_name, s.world, fx), fx)

\* what an input does to the desktop
Felt(s, fx) == IF fx.dialog THEN [s EXCEPT !.world = @ \cup {13}] ELSE s

\* _do_click(x, y, click_type)
DoClick(s, x, y, click_type) ==
    Did(s, Act(IF click_type = "double" THEN "doubleClick"
               ELSE IF click_type = "right" THEN "rightClick"
               ELSE "click", "", x, y))

\* the value of an absent som_id
NoSomId == -1

\* the click on the center c of the labeled element
ClickLabel(args, s, c, fx) ==
    IF ~fx.mouse_ok THEN Raised(Snapshot(s, "pre"))
    ELSE Verify(Felt(DoClick(Snapshot(s, "pre"), c.x, c.y, args.click_type), fx),
                [Done("click") EXCEPT !.method = "som_id",
                                      !.som_id = args.som_id,
                                      !.x = c.x, !.y = c.y],
                args.app_name, fx)

\* a handle_click that clicks the corner of the labeled element
ClickSomIdAtCorner(args, s, hits, fx) ==
    IF hits = {}
    THEN Ret(s, [Err("click", "som_id_not_found") EXCEPT !.som_id = args.som_id])
    ELSE ClickLabel(args, s,
                    [x |-> s.som[CHOOSE i \in hits : \A j \in hits : i <= j].rect.x,
                     y |-> s.som[CHOOSE i \in hits : \A j \in hits : i <= j].rect.y],
                    fx)

\* handle_click with a som_id: hits are the places of _last_som_elements
\* that hold the id
ClickSomId(args, s, hits, fx) ==
    IF hits = {}
    THEN Ret(s, [Err("click", "som_id_not_found") EXCEPT !.som_id = args.som_id])
    ELSE ClickLabel(args, s,
                    CenterOf(s.som[CHOOSE i \in hits : \A j \in hits : i <= j].rect),
                    fx)

\* pre_state = _get_focused_info(), and element.click_input() where it
\* fails
BeforeClick(l, fx) ==
    IF l.res.has_element /\ ~fx.uia_click_ok
    THEN Did(Snapshot(l.s, "pre"), Act("click_input_failed", "", 0, 0))
    ELSE Snapshot(l.s, "pre")

\* handle_click after result = smart_find(...)
ClickLocated(args, l, fx) ==
    IF ~l.res.found THEN Ret(l.s, Err("click", l.res.error))
    ELSE IF l.res.has_element /\ fx.uia_click_ok
    THEN Verify(Felt(Did(Snapshot(l.s, "pre"), Act("click_input", "", 0, 0)), fx),
                [Done("click") EXCEPT !.method = l.res.method,
                                      !.via = "element"],
                args.app_name, fx)
    ELSE IF ~fx.mouse_ok THEN Raised(BeforeClick(l, fx))
    ELSE Verify(Felt(DoClick(BeforeClick(l, fx), l.res.center.x,
                             l.res.center.y, args.click_type), fx),
                [Done("click") EXCEPT !.method = l.res.method,
                                      !.via = "coords",
                                      !.x = l.res.center.x,
                                      !.y = l.res.center.y],
                args.app_name, fx)

\* handle_click after window = find_window(app_name)
ClickInWindow(args, f, tess, fx) ==
    IF f.win = None THEN Ret(f.s, Err("click", "window_not_found"))
    ELSE ClickLocated(args,
            SmartFindIn(FocusWindow(f.s, f.win, fx), f.win, args.element_text,
                        args.element_type, args.location_hint, tess),
            fx)

\* handle_click
HandleClick(args, s, tess, fx) ==
    IF args.som_id # NoSomId
    THEN ClickSomId(args, s,
                    {i \in 1..Len(s.som) : s.som[i].som_id = args.som_id}, fx)
    ELSE IF args.has_coordinates
    THEN IF ~fx.mouse_ok THEN Raised(s)
         ELSE Ret(Felt(DoClick(s, args.x, args.y, args.click_type), fx),
                  [Done("click") EXCEPT !.method = "coordinates",
                                        !.x = args.x, !.y = args.y])
    ELSE IF args.element_text = <<>>
    THEN Ret(s, Err("click", "element_text_or_coordinates_required"))
    ELSE IF args.app_name = <<>> THEN Ret(s, Err("click", "no_app_name"))
    ELSE ClickInWindow(args, Find(s, args.app_name), tess, fx)

\* the pause after the click on the target element, in milliseconds
TargetClickMs == 100

\* the end of handle_type_text: write the text, press Enter
TypeIt(args, s, fx) ==
    IF (args.text # <<>> \/ args.press_enter) /\ ~fx.mouse_ok THEN Raised(s)
    ELSE Ret([s EXCEPT !.acts = @
                \o (IF args.text # <<>>
                    THEN <<Act("write", "", Len(args.text), 0)>> ELSE <<>>)
                \o (IF args.press_enter
                    THEN <<Act("press", "enter", 0, 0)>> ELSE <<>>)],
             [Done("type_text") EXCEPT !.text_length = Len(args.text)])

\* handle_type_text after result = smart_find(window, target_element)
TypeLocated(args, l, fx) ==
    IF ~l.res.found \/ ~l.res.has_element THEN TypeIt(args, l.s, fx)
    ELSE IF fx.uia_click_ok
    THEN TypeIt(args, Sleep(Did(l.s, Act("click_input", "", 0, 0)),
                            TargetClickMs), fx)
    ELSE IF ~fx.mouse_ok
    THEN Raised(Did(l.s, Act("click_input_failed", "", 0, 0)))
    ELSE TypeIt(args,
                Sleep(DoClick(Did(l.s, Act("click_input_failed", "", 0, 0)),
                              l.res.center.x, l.res.center.y, "single"),
                      TargetClickMs),
                fx)

\* handle_type_text after the second window = find_window(app_name)
TypeAtTarget(args, f, tess, fx) ==
    IF f.win = None THEN TypeIt(args, f.s, fx)
    ELSE TypeLocated(args,
                     SmartFindIn(f.s, f.win, args.target_element, "", "", tess),
                     fx)

\* handle_type_text after the first window = find_window(app_name)
TypeInWindow(args, f, tess, fx) ==
    IF f.win = None THEN Ret(f.s, Err("type_text", "window_not_found"))
    ELSE IF args.target_element = <<>>
    THEN TypeIt(args, FocusWindow(f.s, f.win, fx), fx)
    ELSE TypeAtTarget(args, Find(FocusWindow(f.s, f.win, fx), args.app_name),
                      tess, fx)

\* handle_type_text
HandleTypeText(args, s, tess, fx) ==
    IF args.app_name = <<>> THEN TypeIt(args, s, fx)
    ELSE TypeInWindow(args, Find(s, args.app_name), tess, fx)

\* key_map of handle_hotkey on a lower-case key name
KeyMap(k) ==
    CASE k = "control" -> "ctrl"
      [] k \in {"windows", "super"} -> "win"
      [] k = "return" -> "enter"
      [] k = "esc" -> "escape"
      [] k = "del" -> "delete"
      [] OTHER -> k

\* the end of handle_hotkey: press the key, or the combination
Press(args, s, fx) ==
    IF ~fx.mouse_ok THEN Raised(s)
    ELSE IF Len(args.keys) = 1
    THEN Ret(Did(s, Act("press", KeyMap(args.keys[1]), 0, 0)), Done("hotkey"))
    ELSE Ret([s EXCEPT !.acts = @ \o
                [i \in 1..Len(args.keys) |->
                    Act("hotkey", KeyMap(args.keys[i]), i, 0)]],
             Done("hotkey"))

\* "if window: focus_window(window)"
FocusIfFound(f, fx) ==
    IF f.win = None THEN f.s ELSE FocusWindow(f.s, f.win, fx)

\* handle_hotkey; keys is the sequence of the key names of the combination
HandleHotkey(args, s, tess, fx) ==
    IF args.keys = <<>> THEN Ret(s, Err("hotkey", "no_keys"))
    ELSE IF args.app_name = <<>> THEN Press(args, s, fx)
    ELSE Press(args, FocusIfFound(Find(s, args.app_name), fx), fx)

\* the poll interval and the cap on the timeout of handle_wait_for, in
\* milliseconds
PollMs == 300
MaxWaitMs == 120000

\* the window that opens during the polls of handle_navigate: at poll k when
\* fx.launch = k
Arrive(s, k, fx) ==
    IF fx.launch = k THEN [s EXCEPT !.world = @ \cup {11}] ELSE s

\* the window that opens during handle_wait_for: fx.appears milliseconds
\* after the call began, never when fx.appears is negative
Appear(s, start, fx) ==
    IF fx.appears >= 0 /\ s.now - start >= fx.appears
    THEN [s EXCEPT !.world = @ \cup {11}] ELSE s

\* locate_via_accessibility(win, target) on the window find_window(title)
\* returned
SeenIn(f, target) ==
    f.win # None /\ LocateViaAccessibility(Content(f.win), target, "").found

\* the loop "for w in desktop.windows()" of the element conditions from
\* window i on: [found, s]
RECURSIVE TargetVisible(_, _, _, _)

\* one pass of that loop, after win = find_window(title)
TargetVisibleAt(f, desk, i, target) ==
    IF f.win = None THEN TargetVisible(f.s, desk, i + 1, target)
    ELSE IF SeenIn(f, target)
    THEN [found |-> TRUE, s |-> Did(f.s, Act("tier1", "", f.win, 0))]
    ELSE TargetVisible(Did(f.s, Act("tier1", "", f.win, 0)), desk, i + 1,
                       target)

TargetVisible(s, desk, i, target) ==
    IF i > Len(desk) THEN [found |-> FALSE, s |-> s]
    ELSE IF desk[i].st = "title_raises" \/ Strip(desk[i].title) = <<>>
    THEN TargetVisible(s, desk, i + 1, target)
    ELSE TargetVisibleAt(Find(s, desk[i].title), desk, i, target)

Visible(v) == [holds |-> v.found, s |-> v.s]
Gone(v) == [holds |-> ~v.found, s |-> v.s]
Exists(f) == [holds |-> f.win # None, s |-> f.s]

\* one evaluation of the condition: [holds, s]
Holds(s, condition, target) ==
    CASE condition = "element_visible" ->
            Visible(TargetVisible(s, DeskOf(s.world), 1, target))
      [] condition = "element_gone" ->
            Gone(TargetVisible(s, DeskOf(s.world), 1, target))
      [] condition = "window_exists" -> Exists(Find(s, target))
      [] condition = "window_title_contains" ->
            [holds |-> \E i \in 1..Len(DeskOf(s.world)) :
                            /\ DeskOf(s.world)[i].st # "title_raises"
                            /\ Contains(Lower(target),
                                        Lower(DeskOf(s.world)[i].title)),
             s |-> s]
      [] OTHER -> [holds |-> FALSE, s |-> s]

\* one pass of the loop of handle_wait_for, after the condition was
\* evaluated: return, or sleep; over tells that the loop has ended
WaitPolled(c) ==
    IF c.holds THEN [s |-> c.s, result |-> Done("wait_for"), over |-> TRUE]
    ELSE [s |-> Sleep(c.s, PollMs), result |-> NoOutcome, over |-> FALSE]

\* pass k of the loop "while (time.time() - start) < timeout_s": the test
\* of the timeout, then the poll: [s, result, over]
WaitPass(args, s, k, start, timeout_ms, fx) ==
    IF ~(s.now - start < timeout_ms)
    THEN [s |-> Appear(s, start, fx), result |-> Err("wait_for", "timeout"),
          over |-> TRUE]
    ELSE WaitPolled(Holds(Did(Appear(s, start, fx),
                              Act("poll", args.condition, k, s.now - start)),
                          args.condition, args.target))

\* the passes k to k + n - 1 of the loop, as the first half of them followed
\* by the second half: [s, result, over]
RECURSIVE WaitLoop(_, _, _, _, _, _, _)

\* the second half of the passes, which run when the loop has not ended
WaitRest(args, w, k, n, start, timeout_ms, fx) ==
    IF w.over THEN w ELSE WaitLoop(args, w.s, k, n, start, timeout_ms, fx)

WaitLoop(args, s, k, n, start, timeout_ms, fx) ==
    IF n = 1 THEN WaitPass(args, s, k, start, timeout_ms, fx)
    ELSE WaitRest(args,
                  WaitLoop(args, s, k, n \div 2, start, timeout_ms, fx),
                  k + n \div 2, n - n \div 2, start, timeout_ms, fx)

\* handle_wait_for with the timeout it runs with: every pass sleeps PollMs,
\* so that the loop ends within timeout_ms \div PollMs + 2 passes
WaitFor(args, s, timeout_ms, fx) ==
    WaitLoop(args, s, 1, timeout_ms \div PollMs + 2, s.now, timeout_ms, fx)

\* a handle_wait_for without the cap on timeout_ms
HandleWaitForUncapped(args, s, tess, fx) ==
    [s |-> WaitFor(args, s, args.timeout_ms, fx).s,
     result |-> WaitFor(args, s, args.timeout_ms, fx).result,
     raised |-> FALSE]

\* what handle_wait_for returns
WaitReturn(w) == Ret(w.s, w.result)

\* handle_wait_for
HandleWaitFor(args, s, tess, fx) ==
    WaitReturn(WaitFor(args, s, Min(args.timeout_ms, MaxWaitMs), fx))

\* _sanitize_url(url): the URL is rejected when it has no host or holds a
\* shell metacharacter
SanitizeUrl(url) == url.netloc /\ ~url.dangerous

\* the polls of handle_navigate for the launched window, and the pause
\* before each, in milliseconds
LaunchPolls == 16
LaunchPollMs == 500

\* the pauses of the Start menu search, in milliseconds
StartMenuMs == 500 + 800

\* the loop "for attempt in range(16)" of handle_navigate from poll k on:
\* [win, s]
RECURSIVE AwaitWindow(_, _, _, _)

\* one poll, after window = find_window(app_name)
AwaitPolled(f, app_name, k, fx) ==
    IF f.win # None THEN f ELSE AwaitWindow(f.s, app_name, k + 1, fx)

AwaitWindow(s, app_name, k, fx) ==
    IF k > LaunchPolls THEN [win |-> None, s |-> s]
    ELSE AwaitPolled(Find(Arrive(Sleep(s, LaunchPollMs), k, fx), app_name),
                     app_name, k, fx)

\* the launch of handle_navigate: by the app database, or by the Start menu
Launch(args, s, fx) ==
    IF fx.launcher = "start_menu"
    THEN Sleep([s EXCEPT !.acts = @ \o
                    <<Act("press", "win", 0, 0),
                      Act("write", "", Len(args.app_name), 0),
                      Act("press", "enter", 0, 0)>>],
               StartMenuMs)
    ELSE Did(s, Act("launch", fx.launcher, 0, 0))

\* the end of handle_navigate: focus the window and read its title
Arrived(s, win, method, fx) ==
    IF ~fx.query_ok THEN Raised(FocusWindow(s, win, fx))
    ELSE Ret(FocusWindow(s, win, fx), [Done("navigate") EXCEPT !.method = method])

\* handle_navigate after the wait for the launched window
NavigateLaunched(w, fx) ==
    IF w.win = None
    THEN Ret(w.s, [Done("navigate") EXCEPT !.method = fx.launcher,
                                           !.warning = TRUE])
    ELSE Arrived(w.s, w.win, fx.launcher, fx)

\* handle_navigate after existing = find_window(app_name)
NavigateTo(args, f, fx) ==
    IF f.win # None THEN Arrived(f.s, f.win, "already_running", fx)
    ELSE IF fx.launcher = "start_menu" /\ ~fx.mouse_ok THEN Raised(f.s)
    ELSE NavigateLaunched(AwaitWindow(Launch(args, f.s, fx), args.app_name, 1, fx),
                          fx)

\* handle_navigate
HandleNavigate(args, s, tess, fx) ==
    IF args.url.given
    THEN IF ~SanitizeUrl(args.url)
         THEN Ret(s, Err("navigate", "invalid_or_blocked_url"))
         ELSE Ret(Did(s, Act("open_url", "", 0, 0)),
                  [Done("navigate") EXCEPT !.method = "url_open"])
    ELSE IF args.app_name = <<>>
    THEN Ret(s, Err("navigate", "no_url_or_app_name"))
    ELSE NavigateTo(args, Find(s, args.app_name), fx)

\* the whole screen, captured when no window is named
Screen == [w |-> 1920, h |-> 1080]

\* region_map of handle_screenshot_region: [w, h] of the crop, the capture
\* itself for a region that is not in the map
CropOf(region, shot) ==
    CASE region \in {"top_half", "bottom_half"} ->
            [w |-> shot.w, h |-> shot.h \div 2]
      [] region \in {"left_half", "right_half"} ->
            [w |-> shot.w \div 2, h |-> shot.h]
      [] region = "center" -> [w |-> shot.w \div 2, h |-> shot.h \div 2]
      [] region = "menu_bar" -> [w |-> shot.w, h |-> Min(60, shot.h)]
      [] region = "sidebar" -> [w |-> Min(250, shot.w), h |-> shot.h]
      [] OTHER -> shot

\* the downscaling to max_width
Downscale(img, max_width) ==
    IF img.w > max_width
    THEN [w |-> max_width, h |-> (img.h * max_width) \div img.w]
    ELSE img

\* the result of handle_screenshot_region: the size of the image
Captured(s, region, win, img) ==
    Ret(Did(s, Act("capture", region, win, 0)),
        [Done("screenshot_region") EXCEPT !.x = img.w, !.y = img.h])

\* handle_screenshot_region after window = find_window(app_name)
ScreenshotOf(args, f, fx) ==
    IF f.win = None THEN Ret(f.s, Err("screenshot_region", "window_not_found"))
    ELSE IF ~fx.query_ok \/ ~Content(f.win).rect_ok
    THEN Raised(FocusWindow(f.s, f.win, fx))
    ELSE Captured(FocusWindow(f.s, f.win, fx), args.region, f.win,
                  Downscale(IF args.region # "full"
                            THEN CropOf(args.region,
                                        [w |-> Content(f.win).rect.w,
                                         h |-> Content(f.win).rect.h])
                            ELSE [w |-> Content(f.win).rect.w,
                                  h |-> Content(f.win).rect.h],
                            args.max_width))

\* handle_screenshot_region
HandleScreenshotRegion(args, s, tess, fx) ==
    IF args.app_name # <<>> THEN ScreenshotOf(args, Find(s, args.app_name), fx)
    ELSE IF ~fx.query_ok THEN Raised(s)
    ELSE Captured(s, args.region, None, Downscale(Screen, args.max_width))

(***************************************************************************)
(* dispatch                                                                *)
(***************************************************************************)

\* the keys of TOOL_HANDLERS
ToolIds ==
    {"gui.read_state", "gui.find_element", "gui.click", "gui.type_text",
     "gui.hotkey", "gui.wait_for", "gui.navigate", "gui.screenshot_region"}

\* handler(args) for the handler TOOL_HANDLERS holds under tool_id
Handle(tool_id, args, s, tess, fx) ==
    CASE tool_id = "gui.read_state" -> HandleReadState(args, s, tess, fx)
      [] tool_id = "gui.find_element" -> HandleFindElement(args, s, tess, fx)
      [] tool_id = "gui.click" -> HandleClick(args, s, tess, fx)
      [] tool_id = "gui.type_text" -> HandleTypeText(args, s, tess, fx)
      [] tool_id = "gui.hotkey" -> HandleHotkey(args, s, tess, fx)
      [] tool_id = "gui.wait_for" -> HandleWaitFor(args, s, tess, fx)
      [] tool_id = "gui.navigate" -> HandleNavigate(args, s, tess, fx)
      [] tool_id = "gui.screenshot_region" ->
            HandleScreenshotRegion(args, s, tess, fx)

\* the refresh after the cached lookup missed: find_window, and
\* _cache_window on the window found
Recache(f, app_name, at) ==
    IF f.win = None THEN f.s
    ELSE Did([f.s EXCEPT !.cache = CacheWindow(f.s.cache, app_name, f.win, at,
                                               DeskOf(f.s.world))],
             Act("cache_window", "", f.win, 0))

\* the refresh after cached = _get_cached_window(app_name)
Refreshed(s, app_name, got) ==
    IF got.win # None
    THEN Did([s EXCEPT !.cache = got.cache], Act("cache_get", "hit", 0, 0))
    ELSE Recache(Find(Did([s EXCEPT !.cache = got.cache],
                          Act("cache_get", "miss", 0, 0)),
                      app_name),
                 app_name, s.now)

\* the cache refresh at the end of dispatch
Refresh(s, app_name) ==
    Refreshed(s, app_name,
              GetCachedWindow(s.cache, app_name, s.now, DeskOf(s.world)))

\* the result of dispatch for an exception caught: the tool, the exception
\* class and the traceback
Fault(tool_id, s) ==
    [s |-> s, escaped |-> FALSE,
     result |-> [NoOutcome EXCEPT !.error = "fault", !.tool = tool_id,
                                  !.traceback = TRUE]]

\* a dispatch that refreshes the cache whatever the result is
DispatchedRefreshesOnError(tool_id, args, h) ==
    IF h.raised THEN Fault(tool_id, h.s)
    ELSE [s |-> IF args.app_name # <<>>
                THEN Refresh(h.s, args.app_name)
                ELSE h.s,
          result |-> h.result, escaped |-> FALSE]

\* dispatch after result = handler(args)
Dispatched(tool_id, args, h) ==
    IF h.raised THEN Fault(tool_id, h.s)
    ELSE [s |-> IF args.app_name # <<>> /\ h.result.error = ""
                THEN Refresh(h.s, args.app_name)
                ELSE h.s,
          result |-> h.result, escaped |-> FALSE]

\* dispatch(tool_id, args): [s, result, escaped]; tool is [name, hashable],
\* and escaped tells that an exception left dispatch: the lookup in
\* TOOL_HANDLERS is made outside the try block and raises TypeError on a
\* key that cannot be hashed (a JSON array or object)
Dispatch(tool, args, s, tess, fx) ==
    IF ~tool.hashable THEN [s |-> s, result |-> NoOutcome, escaped |-> TRUE]
    ELSE IF tool.name \notin ToolIds
    THEN [s |-> s, escaped |-> FALSE,
          result |-> [NoOutcome EXCEPT !.error = "unknown_tool",
                                       !.tool = tool.name]]
    ELSE IF ~args.is_object THEN Fault(tool.name, s)
    ELSE Dispatched(tool.name, args, Handle(tool.name, args, s, tess, fx))

(***************************************************************************)
(* run_daemon.  The client numbers its lines: the request on line n        *)
(* carries the id n.  out holds the objects written, [kind, id, result],   *)
(* kind being "ready", "invalid" or "response"; log holds the reads        *)
(* [op |-> "read", n, kind] and the writes [op |-> "write", n, kind], n    *)
(* being the line number of a read and the index in out of a write.        *)
(***************************************************************************)

MaxLines == 2
MaxTime == 70000

\* how the OS answers during one call
Calm ==
    [focus_ok |-> TRUE, uia_click_ok |-> TRUE, mouse_ok |-> TRUE,
     query_ok |-> TRUE, focus_moves |-> FALSE, dialog |-> FALSE,
     launch |-> 0, launcher |-> "start_menu", appears |-> -1]

NoUrl == [given |-> FALSE, netloc |-> FALSE, dangerous |-> FALSE]

\* the args of a request with every key at its default
NoArgs ==
    [is_object |-> TRUE, app_name |-> <<>>, mode |-> "text",
     element_text |-> <<>>, element_type |-> "", location_hint |-> "",
     som_id |-> NoSomId, has_coordinates |-> FALSE, x |-> 0, y |-> 0,
     click_type |-> "single", text |-> <<>>, target_element |-> <<>>,
     press_enter |-> FALSE, keys |-> <<>>, condition |-> "",
     target |-> <<>>, timeout_ms |-> 10000, url |-> NoUrl,
     region |-> "full", max_width |-> MaxWidth]

Req(name, args) == [tool |-> [name |-> name, hashable |-> TRUE], args |-> args]

OnApp == [NoArgs EXCEPT !.app_name = S_aba_Abb]

ClickAba == Req("gui.click", [OnApp EXCEPT !.element_text = S_aba,
                                           !.click_type = "right"])
ClickSom == Req("gui.click", [OnApp EXCEPT !.som_id = 1, !.click_type = "double"])
ReadVisual == Req("gui.read_state", [OnApp EXCEPT !.mode = "visual"])
TypeAtAba ==
    Req("gui.type_text", [OnApp EXCEPT !.text = S_c, !.target_element = S_aba,
                                       !.press_enter = TRUE])
WaitForAba ==
    Req("gui.wait_for", [NoArgs EXCEPT !.condition = "window_exists",
                                       !.target = S_aba, !.timeout_ms = 600])

\* the tool requests a client sends
Requests ==
    {Req("gui.read_state", NoArgs),
     Req("gui.read_state", OnApp),
     ReadVisual,
     Req("gui.read_state", [NoArgs EXCEPT !.app_name = S_abcc]),
     Req("gui.find_element", [OnApp EXCEPT !.element_text = S_aba]),
     Req("gui.find_element", [OnApp EXCEPT !.element_text = S_abba]),
     ClickSom,
     Req("gui.click", [NoArgs EXCEPT !.has_coordinates = TRUE, !.x = 5, !.y = 7]),
     ClickAba,
     Req("gui.click", NoArgs),
     TypeAtAba,
     Req("gui.type_text", [OnApp EXCEPT !.text = S_c, !.target_element = S_abcc]),
     Req("gui.type_text", [NoArgs EXCEPT !.text = S_c]),
     Req("gui.hotkey", [OnApp EXCEPT !.keys = <<"control", "t">>]),
     Req("gui.hotkey", [NoArgs EXCEPT !.app_name = S_abcc, !.keys = <<"esc">>]),
     WaitForAba,
     Req("gui.wait_for", [NoArgs EXCEPT !.condition = "window_exists",
                                        !.target = S_c, !.timeout_ms = 0]),
     Req("gui.wait_for", [NoArgs EXCEPT !.condition = "element_visible",
                                        !.target = S_aba, !.timeout_ms = 300]),
     Req("gui.wait_for", [NoArgs EXCEPT !.condition = "idle", !.timeout_ms = 300]),
     Req("gui.wait_for", [NoArgs EXCEPT !.condition = "idle",
                                        !.timeout_ms = MaxWaitMs + PollMs]),
     Req("gui.navigate", [NoArgs EXCEPT !.url = [NoUrl EXCEPT !.given = TRUE,
                                                              !.netloc = TRUE]]),
     Req("gui.navigate", OnApp),
     Req("gui.navigate", NoArgs),
     Req("gui.screenshot_region", [OnApp EXCEPT !.region = "center"]),
     Req("gui.screenshot_region", NoArgs),
     Req("gui.nope", OnApp),
     Req("gui.click", [OnApp EXCEPT !.is_object = FALSE]),
     [tool |-> [name |-> "", hashable |-> FALSE], args |-> NoArgs]}

\* the calls: every request with the OS answering as it should, and the
\* requests a failure or a side effect of the OS bears on
Calls ==
    {[r |-> r, fx |-> Calm] : r \in Requests}
    \cup {[r |-> ReadVisual, fx |-> [Calm EXCEPT !.query_ok = FALSE]],
          [r |-> ClickAba, fx |-> [Calm EXCEPT !.uia_click_ok = FALSE]],
          [r |-> ClickAba, fx |-> [Calm EXCEPT !.uia_click_ok = FALSE,
                                               !.mouse_ok = FALSE]],
          [r |-> ClickAba, fx |-> [Calm EXCEPT !.focus_ok = FALSE]],
          [r |-> ClickAba, fx |-> [Calm EXCEPT !.focus_moves = TRUE,
                                               !.dialog = TRUE]],
          [r |-> ClickSom, fx |-> [Calm EXCEPT !.mouse_ok = FALSE]],
          [r |-> TypeAtAba, fx |-> [Calm EXCEPT !.uia_click_ok = FALSE]],
          [r |-> WaitForAba, fx |-> [Calm EXCEPT !.appears = 300]],
          [r |-> WaitForAba, fx |-> [Calm EXCEPT !.appears = 400]],
          [r |-> Req("gui.navigate", OnApp),
           fx |-> [Calm EXCEPT !.launch = 2, !.launcher = "shortcut"]]}

NoLast ==
    [tool |-> "", args |-> NoArgs, fx |-> Calm, acts |-> <<>>,
     result |-> NoOutcome, raised |-> FALSE, world |-> {}]

Init ==
    /\ sc = NoScore
    /\ rs = NoResolve
    /\ lc = NoLocate
    /\ dg = NoDialog
    /\ tesseract \in BOOLEAN
    /\ pc = "start"
    /\ nread = 0
    /\ out = <<>>
    /\ log = <<>>
    /\ cache = <<>>
    /\ som = <<>>
    /\ now = 0
    /\ world = {11, 12}
    /\ last = NoLast

Written(kind, id, result) == [kind |-> kind, id |-> id, result |-> result]

ReadEntry(kind) == [op |-> "read", n |-> nread + 1, kind |-> kind]
WriteEntry(kind) == [op |-> "write", n |-> Len(out) + 1, kind |-> kind]

\* the line is read and answered with one object
Answer(kind, obj) ==
    /\ nread' = nread + 1
    /\ out' = Append(out, obj)
    /\ log' = log \o <<ReadEntry(kind), WriteEntry(obj.kind)>>

Reading == pc = "loop" /\ nread < MaxLines

\* the daemon that starts to read without the readiness object
StartSilently ==
    /\ pc = "start"
    /\ pc' = "loop"
    /\ UNCHANGED <<tesseract, nread, out, log, cache, som, now, world, last>>
    /\ UNCHANGED harnessVars

\* sys.stdout.write(json.dumps({"ready": True, "pid": os.getpid()}))
EmitReady ==
    /\ pc = "start"
    /\ out' = Append(out, Written("ready", -1, NoOutcome))
    /\ log' = Append(log, WriteEntry("ready"))
    /\ pc' = "loop"
    /\ UNCHANGED <<tesseract, nread, cache, som, now, world, last>>
    /\ UNCHANGED harnessVars

\* a line that is empty after strip(): skipped
ReadBlank ==
    /\ Reading
    /\ nread' = nread + 1
    /\ log' = Append(log, ReadEntry("blank"))
    /\ UNCHANGED <<tesseract, pc, out, cache, som, now, world, last>>
    /\ UNCHANGED harnessVars

InvalidJson == Written("invalid", -1, [NoOutcome EXCEPT !.error = "Invalid JSON"])

\* the daemon that forgets its session on a line that is not JSON
ReadMalformedResets ==
    /\ Reading
    /\ Answer("malformed", InvalidJson)
    /\ cache' = <<>>
    /\ som' = <<>>
    /\ UNCHANGED <<tesseract, pc, now, world, last>>
    /\ UNCHANGED harnessVars

\* a line json.loads rejects
ReadMalformed ==
    /\ Reading
    /\ Answer("malformed", InvalidJson)
    /\ UNCHANGED <<tesseract, pc, cache, som, now, world, last>>
    /\ UNCHANGED harnessVars

\* a line that holds a JSON value other than an object (a number, a
\* string, an array, null, true): msg.get raises AttributeError, which
\* nothing catches
ReadValue ==
    /\ Reading
    /\ nread' = nread + 1
    /\ log' = Append(log, ReadEntry("value"))
    /\ pc' = "crashed"
    /\ UNCHANGED <<tesseract, out, cache, som, now, world, last>>
    /\ UNCHANGED harnessVars

\* the daemon that does not answer _ping
ReadPingSilently ==
    /\ Reading
    /\ nread' = nread + 1
    /\ log' = Append(log, ReadEntry("ping"))
    /\ UNCHANGED <<tesseract, pc, out, cache, som, now, world, last>>
    /\ UNCHANGED harnessVars

\* {"tool": "_ping"}
ReadPing ==
    /\ Reading
    /\ Answer("ping", Written("response", nread + 1,
                              [NoOutcome EXCEPT !.verb = "pong"]))
    /\ UNCHANGED <<tesseract, pc, cache, som, now, world, last>>
    /\ UNCHANGED harnessVars

\* {"tool": "_cache"}: the title and pid of every entry of _window_cache
ReadCache ==
    /\ Reading
    /\ Answer("cache",
              Written("response", nread + 1,
                      [NoOutcome EXCEPT
                         !.verb = "cache",
                         !.windows = [k \in DOMAIN cache |->
                                        [title |-> cache[k].title,
                                         pid |-> cache[k].pid]]]))
    /\ UNCHANGED <<tesseract, pc, cache, som, now, world, last>>
    /\ UNCHANGED harnessVars

\* the daemon that acknowledges _quit and goes on reading
ReadQuitGoesOn ==
    /\ Reading
    /\ Answer("quit", Written("response", nread + 1,
                              [NoOutcome EXCEPT !.verb = "quit"]))
    /\ UNCHANGED <<tesseract, pc, cache, som, now, world, last>>
    /\ UNCHANGED harnessVars

\* {"tool": "_quit"}: acknowledge, then break
ReadQuit ==
    /\ Reading
    /\ Answer("quit", Written("response", nread + 1,
                              [NoOutcome EXCEPT !.verb = "quit"]))
    /\ pc' = "done"
    /\ UNCHANGED <<tesseract, cache, som, now, world, last>>
    /\ UNCHANGED harnessVars

\* the step of the loop after result = dispatch(tool_id, args): the
\* response is written, unless the exception of dispatch ends the loop
Respond(c, d) ==
    /\ IF d.escaped
       THEN /\ nread' = nread + 1
            /\ log' = Append(log, ReadEntry("bad_tool"))
            /\ pc' = "crashed"
            /\ out' = out
       ELSE /\ Answer("tool", Written("response", nread + 1, d.result))
            /\ pc' = pc
    /\ cache' = d.s.cache
    /\ som' = d.s.som
    /\ now' = d.s.now
    /\ world' = d.s.world
    /\ last' = [tool |-> c.r.tool.name, args |-> c.r.args, fx |-> c.fx,
                acts |-> d.s.acts, result |-> d.result,
                raised |-> d.result.error = "fault", world |-> d.s.world]

\* any other object: result = dispatch(tool_id, args), then the response
ReadTool ==
    /\ Reading
    /\ \E c \in Calls :
        Respond(c, Dispatch(c.r.tool, c.r.args,
                            [cache |-> cache, som |-> som, now |-> now,
                             world |-> world, acts |-> <<>>],
                            tesseract, c.fx))
    /\ UNCHANGED tesseract
    /\ UNCHANGED harnessVars

\* sys.stdin is at its end: the for loop ends
EndOfInput ==
    /\ pc = "loop"
    /\ pc' = "done"
    /\ UNCHANGED <<tesseract, nread, out, log, cache, som, now, world, last>>
    /\ UNCHANGED harnessVars

\* time passes between two lines
Tick ==
    /\ pc = "loop"
    /\ \E d \in {CacheTtl * 1000, CacheTtl * 1000 + 1} :
        /\ now + d <= MaxTime
        /\ now' = now + d
    /\ UNCHANGED <<tesseract, pc, nread, out, log, cache, som, world, last>>
    /\ UNCHANGED harnessVars

\* a window opens between two lines
OpenWindow ==
    /\ pc = "loop"
    /\ \E h \in {11, 13} \ world : world' = world \cup {h}
    /\ UNCHANGED <<tesseract, pc, nread, out, log, cache, som, now, last>>
    /\ UNCHANGED harnessVars

\* a window closes between two lines
CloseWindow ==
    /\ pc = "loop"
    /\ \E h \in {11, 13} \cap world : world' = world \ {h}
    /\ UNCHANGED <<tesseract, pc, nread, out, log, cache, som, now, last>>
    /\ UNCHANGED harnessVars

Next ==
    \/ EmitReady
    \/ ReadBlank
    \/ ReadMalformed
    \/ ReadValue
    \/ ReadPing
    \/ ReadCache
    \/ ReadQuit
    \/ ReadTool
    \/ EndOfInput
    \/ Tick
    \/ OpenWindow
    \/ CloseWindow

Spec == Init /\ [][Next]_vars

(***************************************************************************)
(* The daemon loop                                                         *)
(***************************************************************************)

\* the reads of the log
IsRead(e) == e.op = "read"

\* the lines that hold a request: a JSON object whose tool is a string
RequestKinds == {"ping", "cache", "quit", "tool"}

\* C1: the loop ends only on _quit or at the end of the input: every other
\* line that is not blank, whatever JSON value it holds and whatever its
\* tool is, is answered with a response, and the loop goes on reading
C1_LoopEndsOnlyOnQuitOrEof ==
    /\ pc # "crashed"
    /\ \A i \in 1..Len(log) :
         (IsRead(log[i]) /\ log[i].kind \notin {"blank", "quit"}) =>
            /\ i < Len(log)
            /\ log[i + 1].op = "write"

\* C2: every request is answered by exactly one response with its id,
\* written directly after the request is read and before the next line is
\* read, so that the responses are in the order of the requests
C2_OneResponsePerRequest ==
    \A i \in 1..Len(log) :
        /\ (IsRead(log[i]) /\ log[i].kind \in RequestKinds) =>
              /\ i < Len(log)
              /\ log[i + 1].op = "write"
              /\ log[i + 1].kind = "response"
              /\ out[log[i + 1].n].id = log[i].n
        /\ (log[i].op = "write" /\ log[i].kind = "response") =>
              /\ i > 1
              /\ IsRead(log[i - 1])
              /\ log[i - 1].kind \in RequestKinds
              /\ out[log[i].n].id = log[i - 1].n

\* two requests were read and answered, the second by a tool handler
C2_Witness ==
    /\ Len(log) = 5
    /\ IsRead(log[2]) /\ log[2].kind \in RequestKinds
    /\ IsRead(log[4]) /\ log[4].kind = "tool"
    /\ out[2].id = 1
    /\ out[3].id = 2

\* C3: a line that is not JSON is answered with {"error": "Invalid JSON"},
\* the window cache and the stored snapshot of elements stay as they were,
\* and the loop goes on reading
C3_MalformedLine ==
    [][(nread' = nread + 1 /\ log'[Len(log) + 1].kind = "malformed") =>
          /\ out' = Append(out, InvalidJson)
          /\ cache' = cache
          /\ som' = som
          /\ pc' = "loop"]_vars

\* a line that is not JSON was read after a read_state had filled the cache
\* and the snapshot of elements
C3_Witness ==
    /\ Len(log) = 5
    /\ log[4].kind = "malformed"
    /\ out[3] = InvalidJson
    /\ cache # <<>>
    /\ som # <<>>
    /\ pc = "loop"

\* C4: the first object written is the readiness object, and it is written
\* before any line is read and before any response
C4_ReadyFirst ==
    /\ Len(out) >= 1 => out[1].kind = "ready"
    /\ Len(log) >= 1 => log[1] = [op |-> "write", n |-> 1, kind |-> "ready"]
    /\ nread > 0 => Len(out) >= 1

\* a request was read and answered after the readiness object
C4_Witness ==
    /\ nread > 0
    /\ Len(out) >= 2
    /\ out[1].kind = "ready"
    /\ out[2].kind = "response"

\* C5: a _quit request is answered by one acknowledgement with its id, and
\* the daemon ends: the acknowledgement is the last thing written and the
\* request the last line read
C5_QuitEnds ==
    \A i \in 1..Len(log) :
        (IsRead(log[i]) /\ log[i].kind = "quit") =>
            /\ i + 1 = Len(log)
            /\ log[i + 1].op = "write"
            /\ log[i + 1].n = Len(out)
            /\ out[Len(out)] = Written("response", log[i].n,
                                       [NoOutcome EXCEPT !.verb = "quit"])
            /\ nread = log[i].n
            /\ pc = "done"

\* a _quit request was the first line read, with input left to read
C5_Witness ==
    /\ pc = "done"
    /\ nread = 1
    /\ nread < MaxLines
    /\ Len(log) = 3
    /\ log[2].kind = "quit"
    /\ out[2].result.verb = "quit"

(***************************************************************************)
(* The window cache over the session                                       *)
(***************************************************************************)

\* what _cache_window stores besides the time
Ident(e) == <<e.handle, e.title, e.pid>>

\* the step creates the entry of key k or stores another window in it
CacheWritten(k) ==
    /\ k \in DOMAIN cache'
    /\ (k \notin DOMAIN cache \/ Ident(cache'[k]) # Ident(cache[k]))

\* the acts of a call hold one _cache_window, as the last act, after the
\* cached lookup of dispatch missed and find_window ran
WrittenAfterMiss(acts) ==
    /\ Len(acts) >= 3
    /\ acts[Len(acts)].op = "cache_window"
    /\ acts[Len(acts) - 1].op = "find_window"
    /\ acts[Len(acts) - 2] = Act("cache_get", "miss", 0, 0)
    /\ \A i \in 1..(Len(acts) - 1) : acts[i].op # "cache_window"

\* the step is a tool call with a non-empty app_name and a result without
\* error, whose cached lookup missed
LazyWrite ==
    /\ nread' = nread + 1
    /\ log'[Len(log) + 1].kind = "tool"
    /\ last'.tool \in ToolIds
    /\ last'.args.app_name # <<>>
    /\ last'.result.error = ""
    /\ WrittenAfterMiss(last'.acts)

\* C15: an entry of the cache is created or overwritten only at the end of
\* a dispatched tool call with a non-empty app_name and a result without
\* error, and only after the cached lookup for that name missed; the
\* handlers, _ping, _cache, _quit, unknown tools and calls that end in an
\* error write no entry
C15_LazyCachePopulation ==
    [][/\ \A k \in DOMAIN cache' :
            CacheWritten(k) => (LazyWrite /\ k = Lower(last'.args.app_name))
       /\ (nread' = nread + 1
           /\ log'[Len(log) + 1].kind = "tool"
           /\ \E i \in 1..Len(last'.acts) : last'.acts[i].op = "cache_window")
            => LazyWrite]_vars

\* a tool call stored the window of its app_name at its end
C15_Witness ==
    /\ nread = 1
    /\ last.args.app_name = S_aba_Abb
    /\ last.result.error = ""
    /\ Len(last.acts) >= 3
    /\ last.acts[Len(last.acts)].op = "cache_window"
    /\ DOMAIN cache = {Lower(S_aba_Abb)}

(***************************************************************************)
(* The snapshot of labeled elements                                        *)
(***************************************************************************)

\* C16: the ids of the stored snapshot are 1..N in element order, without
\* gaps, and N is at most 50, whatever elements the window has, elements
\* outside the captured image included
C16_DenseSomIds ==
    /\ Len(som) <= SomCap
    /\ \A i \in 1..Len(som) : som[i].som_id = i

\* the step is a visual read_state that completed
VisualReadDone ==
    /\ nread' = nread + 1
    /\ log'[Len(log) + 1].kind = "tool"
    /\ last'.tool = "gui.read_state"
    /\ last'.args.mode = "visual"
    /\ last'.result.mode = "visual"
    /\ last'.result.error = ""

\* the window a call captured
CapturedWindow(acts) ==
    acts[CHOOSE i \in 1..Len(acts) : acts[i].op = "capture"].x

\* the labeled elements of window win
LabelsOf(win) ==
    SomFrom(ListElements(Content(win)), 1, 0, Content(win).rect, <<>>)

\* C17: a visual read that completes replaces the whole snapshot by its own
\* list of labeled elements, and no other step (a text read, a visual read
\* that fails, find_element, click, type_text, hotkey, wait_for, navigate,
\* screenshot_region, _ping, _cache, _quit, a line that is no request)
\* changes the snapshot
C17_SnapshotIsLastVisualRead ==
    [][IF VisualReadDone
       THEN /\ som' = LabelsOf(CapturedWindow(last'.acts))
            /\ last'.result.count = Len(som')
       ELSE som' = som]_vars

\* a second visual read completed over the snapshot of the first
C17_Witness ==
    /\ nread = 2
    /\ Len(out) = 3
    /\ out[2].result.mode = "visual" /\ out[2].result.error = ""
    /\ out[3].result.mode = "visual" /\ out[3].result.error = ""
    /\ som = LabelsOf(11)
    /\ som # <<>>

\* the clicks a call injected
ClicksOf(acts) ==
    SelectSeq(acts, LAMBDA a : a.op \in {"click", "doubleClick", "rightClick"})

\* the last call was a click by som_id that the OS took
ClickedBySomId ==
    /\ last.tool = "gui.click"
    /\ last.args.is_object
    /\ last.args.som_id # NoSomId
    /\ last.fx.mouse_ok

\* the places of the snapshot that hold the id of the last call
SomHits == {i \in 1..Len(som) : som[i].som_id = last.args.som_id}

\* the click by som_id on the element of rectangle r
ClickedAtCenter(r) ==
    /\ Len(ClicksOf(last.acts)) = 1
    /\ ClicksOf(last.acts)[1].x = r.x + r.w \div 2
    /\ ClicksOf(last.acts)[1].y = r.y + r.h \div 2
    /\ last.result.error = ""
    /\ last.result.done
    /\ last.result.verb = "click"
    /\ last.result.method = "som_id"
    /\ last.result.som_id = last.args.som_id
    /\ last.result.x = r.x + r.w \div 2
    /\ last.result.y = r.y + r.h \div 2

\* C18: a click by som_id k on a snapshot that holds an element of id k and
\* rect (x, y, w, h) injects one click at (x + w div 2, y + h div 2) and
\* reports clicked, method som_id and these coordinates; when no element
\* has the id, it injects no click and reports an error, not clicked
C18_ClickBySomId ==
    ClickedBySomId =>
        IF SomHits # {}
        THEN ClickedAtCenter(som[CHOOSE i \in SomHits : \A j \in SomHits : i <= j].rect)
        ELSE /\ ClicksOf(last.acts) = <<>>
             /\ ~last.result.done
             /\ last.result.error # ""

\* the element of id 1, of rect (120, 80, 41, 21), was clicked at (140, 90)
C18_Witness ==
    /\ ClickedBySomId
    /\ last.args.som_id = 1
    /\ SomHits = {1}
    /\ som[1].rect = [x |-> 120, y |-> 80, w |-> 41, h |-> 21]
    /\ ClicksOf(last.acts) = <<Act("doubleClick", "", 140, 90)>>
    /\ last.result.done
    /\ last.result.x = 140
    /\ last.result.y = 90

(***************************************************************************)
(* handle_wait_for                                                         *)
(***************************************************************************)

\* the polls of the last call: x is the number of the poll, y the time
\* since the call began at which it started
PollsOf(acts) == SelectSeq(acts, LAMBDA a : a.op = "poll")

\* the timeout the last call ran with
WaitLimit == Min(last.args.timeout_ms, MaxWaitMs)

\* the last call waited for the window titled "aba abb" under the name
\* "aba", and the window opened, or was open, before the timeout
WaitedForWindow ==
    /\ last.tool = "gui.wait_for"
    /\ last.args.condition = "window_exists"
    /\ last.args.target = S_aba
    /\ last.fx.appears >= 0
    /\ last.fx.appears < WaitLimit

\* C19: a wait for window_exists whose window becomes resolvable at a time
\* t before the timeout, and stays so, returns waited at the first poll at
\* or after t, before the timeout
C19_WaitSeesWindow ==
    WaitedForWindow =>
        /\ last.result.done
        /\ last.result.error = ""
        /\ PollsOf(last.acts) # <<>>
        /\ PollsOf(last.acts)[Len(PollsOf(last.acts))].y < last.fx.appears + PollMs
        /\ PollsOf(last.acts)[Len(PollsOf(last.acts))].y < WaitLimit

\* the polls of a call started every 300 ms from its start, and none
\* once limit ms had passed
PolledWithin(polls, limit) ==
    \A i \in 1..Len(polls) :
        /\ polls[i].x = i
        /\ polls[i].y = (i - 1) * PollMs
        /\ polls[i].y < limit

\* the call returned waited after a poll, or timed out after all of them
WaitReturned(polls, limit) ==
    /\ last.result.verb = "wait_for"
    /\ IF last.result.done
       THEN polls # <<>> /\ last.result.error = ""
       ELSE last.result.error = "timeout" /\ Len(polls) * PollMs >= limit

\* C20: handle_wait_for ends: its polls start every 300 ms from the start
\* of the call, none once min(timeout_ms, 120000) ms have passed, whatever
\* the condition is called; a call that did not see its condition hold
\* returns not waited with the timeout error
C20_WaitEnds ==
    (last.tool = "gui.wait_for" /\ last.result.error # "fault") =>
        /\ PolledWithin(PollsOf(last.acts), WaitLimit)
        /\ WaitReturned(PollsOf(last.acts), WaitLimit)

\* a wait on a condition the handler does not know, with a timeout above the
\* cap, polled 400 times, the last time at 119700 ms, and timed out
C20_Witness ==
    /\ last.tool = "gui.wait_for"
    /\ last.args.condition = "idle"
    /\ last.args.timeout_ms > MaxWaitMs
    /\ Len(PollsOf(last.acts)) = 400
    /\ PollsOf(last.acts)[400].y = MaxWaitMs - PollMs
    /\ ~last.result.done
    /\ last.result.error = "timeout"

(***************************************************************************)
(* The handlers and the window they act on                                 *)
(***************************************************************************)

\* the tools that name an application and act on its window
WindowTools ==
    {"gui.read_state", "gui.find_element", "gui.click", "gui.type_text",
     "gui.hotkey", "gui.screenshot_region"}

\* the calls that inject input: mouse clicks, text, key presses
InputOps ==
    {"click", "doubleClick", "rightClick", "click_input", "write", "press",
     "hotkey"}

InputsOf(acts) == {i \in 1..Len(acts) : acts[i].op \in InputOps}

\* the calls the handler made: those before the cache lookup of dispatch
HandlerActs(acts) ==
    LET idx == {i \in 1..Len(acts) : acts[i].op = "cache_get"}
    IN  IF idx = {} THEN acts
        ELSE SubSeq(acts, 1, (CHOOSE i \in idx : \A j \in idx : i <= j) - 1)

\* the calls of find_window among them
ResolvesOf(acts) == {i \in 1..Len(acts) : acts[i].op = "find_window"}

\* the handler resolved the application and got no window
ResolvedNone(acts) == \E i \in ResolvesOf(acts) : acts[i].x = None

\* C22: when a request of read_state, find_element, click, type_text,
\* hotkey or screenshot_region names an application and find_window
\* returns no window for it, the result carries the error that the window
\* was not found and no click, text or key press is injected
C22_NoWindowNoInput ==
    (/\ last.tool \in WindowTools
     /\ last.args.is_object
     /\ last.args.app_name # <<>>
     /\ ResolvedNone(HandlerActs(last.acts))) =>
        /\ last.result.error = "window_not_found"
        /\ InputsOf(last.acts) = {}

(***************************************************************************)
(* dispatch                                                                *)
(***************************************************************************)

\* an exception left dispatch on the line read at place i of the log
DispatchRaisedAt(i) == IsRead(log[i]) /\ log[i].kind = "bad_tool"

\* C23: dispatch never raises, whatever the tool identifier and the args
\* are; an unknown tool yields an error result and no lookup in the cache,
\* and a failure inside a handler yields an error result that names the
\* tool and carries the traceback
C23_DispatchTotal ==
    /\ \A i \in 1..Len(log) : ~DispatchRaisedAt(i)
    /\ (last.tool # "" /\ last.tool \notin ToolIds) =>
            /\ last.result.error = "unknown_tool"
            /\ last.result.tool = last.tool
            /\ last.acts = <<>>
    /\ last.result.error = "fault" =>
            /\ last.result.tool = last.tool
            /\ last.result.traceback

(***************************************************************************)
(* run_oneshot.  The process serves one call given on the command line     *)
(* (argparse requires both --tool and --args, and hands the tool over as   *)
(* a string) on a desktop in any state, with an empty session.  out holds  *)
(* what it prints and pc how it exits.                                     *)
(***************************************************************************)

InitOneshot ==
    /\ sc = NoScore
    /\ rs = NoResolve
    /\ lc = NoLocate
    /\ dg = NoDialog
    /\ tesseract \in BOOLEAN
    /\ pc = "oneshot"
    /\ nread = 0
    /\ out = <<>>
    /\ log = <<>>
    /\ cache = <<>>
    /\ som = <<>>
    /\ now = 0
    /\ world \in SUBSET {11, 12, 13}
    /\ last = NoLast

\* the calls a command line can hold: the tool is a string
OneshotCalls == {c \in Calls : c.r.tool.hashable}

\* an end of run_oneshot that never calls sys.exit(1)
ExitStateAlwaysZero(result) == "exit0"

\* the end of run_oneshot: sys.exit(1) if result.get("error"), else the
\* function returns and the process exits with status 0
ExitState(result) == IF result.error # "" THEN "exit1" ELSE "exit0"

\* json.loads(parsed.args) raises: the error object is printed,
\* sys.exit(1)
OneshotBadArgs ==
    /\ pc = "oneshot"
    /\ out' = <<Written("invalid", -1,
                        [NoOutcome EXCEPT !.error = "Invalid JSON args"])>>
    /\ pc' = "exit1"
    /\ UNCHANGED <<tesseract, nread, log, cache, som, now, world, last>>
    /\ UNCHANGED harnessVars

\* result = dispatch(tool_id, args); print(json.dumps(result)); exit
OneshotPrint(c, d) ==
    /\ out' = <<Written("result", -1, d.result)>>
    /\ pc' = ExitState(d.result)
    /\ cache' = d.s.cache
    /\ som' = d.s.som
    /\ now' = d.s.now
    /\ world' = d.s.world
    /\ last' = [tool |-> c.r.tool.name, args |-> c.r.args, fx |-> c.fx,
                acts |-> d.s.acts, result |-> d.result,
                raised |-> d.result.error = "fault", world |-> d.s.world]

OneshotRun ==
    /\ pc = "oneshot"
    /\ \E c \in OneshotCalls :
        OneshotPrint(c, Dispatch(c.r.tool, c.r.args,
                                 [cache |-> cache, som |-> som, now |-> now,
                                  world |-> world, acts |-> <<>>],
                                 tesseract, c.fx))
    /\ UNCHANGED <<tesseract, nread, log>>
    /\ UNCHANGED harnessVars

NextOneshot == OneshotBadArgs \/ OneshotRun

SpecOneshot == InitOneshot /\ [][NextOneshot]_vars

\* C24: one-shot mode prints exactly one object, the result, and exits
\* with status 1 if and only if that object carries an error (the error
\* of the call, or that of arguments that are no JSON), else with status 0
C24_OneshotExitStatus ==
    /\ pc = "oneshot" => out = <<>>
    /\ pc # "oneshot" =>
            /\ pc \in {"exit0", "exit1"}
            /\ Len(out) = 1
            /\ pc = "exit1" <=> out[1].result.error # ""
            /\ out[1].kind = "result" => out[1].result = last.result

\* C24 witness: a click on an application that has no window was printed
\* with its error, and the process exited with status 1
C24_Witness ==
    /\ pc = "exit1"
    /\ Len(out) = 1
    /\ out[1].kind = "result"
    /\ last.tool = "gui.click"
    /\ out[1].result.error = "window_not_found"

(***************************************************************************)
(* Verification after an input                                             *)
(***************************************************************************)

\* dispatch ran its cache refresh after the handler returned
RefreshRan(acts) == \E i \in 1..Len(acts) : acts[i].op = "cache_get"

\* the last call was a click whose result was verified while a window that
\* _check_for_dialog flags was open
ClickedUnderDialog ==
    /\ last.tool = "gui.click"
    /\ last.result.verified
    /\ last.fx.query_ok
    /\ CheckForDialog(last.args.app_name, last.world, last.fx) # <<>>

\* C25: a dialog detected after a click is a warning: the result of the
\* click keeps clicked = true, carries the dialog fields and no error, and
\* dispatch treats the call as free of errors and runs its cache refresh
C25_DialogIsWarning ==
    /\ ClickedUnderDialog => last.result.dialog_detected
    /\ (last.tool = "gui.click" /\ last.result.dialog_detected) =>
            /\ last.result.verb = "click"
            /\ last.result.done
            /\ last.result.error = ""
            /\ last.result.dialog_title
                    = CheckForDialog(last.args.app_name, last.world, last.fx)
            /\ last.result.dialog_title # <<>>
            /\ last.args.app_name # <<>> => RefreshRan(last.acts)

\* C25 witness: the click on the button opened the dialog "Save as"; the
\* result is a click with the dialog's title, and the refresh ran
C25_Witness ==
    /\ last.tool = "gui.click"
    /\ last.fx.dialog
    /\ last.result.done
    /\ last.result.dialog_detected
    /\ last.result.dialog_title = S_save_as
    /\ last.args.app_name # <<>>
    /\ RefreshRan(last.acts)

\* the places of acts that hold the op, with the arg when one is given
ActsOf(acts, op, arg) ==
    {i \in 1..Len(acts) : acts[i].op = op /\ (arg = "" \/ acts[i].arg = arg)}

\* the call injected input and returned a result
InjectedInput ==
    /\ last.tool \in {"gui.click", "gui.type_text", "gui.hotkey"}
    /\ InputsOf(last.acts) # {}
    /\ last.result.error # "fault"

\* C26: a request that injects input (a click by text, by som_id or by
\* coordinates, type_text, hotkey) takes a snapshot of the focus before
\* the first injection and, after the last injection and before it
\* returns, takes a second snapshot and runs the dialog detection
C26_InputIsVerified ==
    InjectedInput =>
        \A i \in InputsOf(last.acts) :
            /\ \E j \in ActsOf(last.acts, "snapshot", "pre") : j < i
            /\ \E j \in ActsOf(last.acts, "snapshot", "post") : j > i
            /\ \E j \in ActsOf(last.acts, "check_dialog", "") : j > i

(***************************************************************************)
(* Focus before use                                                        *)
(***************************************************************************)

\* the calls that locate an element of a window or inject input
UseOps == InputOps \cup {"tier1", "tier2", "tier3", "list_elements"}

\* at place j of the acts a window resolved before is in use, and since it
\* was resolved its focus was requested with success and the settle delay
\* has passed
FocusedBefore(acts, j) ==
    \E i \in 1..(j - 1) :
        /\ acts[i].op = "find_window"
        /\ acts[i].x # None
        /\ \E k \in (i + 1)..(j - 1) :
                acts[k].op = "focus" /\ acts[k].x = acts[i].x

ResolvedBefore(acts, j) ==
    \E i \in 1..(j - 1) : acts[i].op = "find_window" /\ acts[i].x # None

\* C27: in every handler, between resolving a window and the first
\* element location or input injection against it, the focus was
\* requested with success and the settle delay has completed
C27_FocusBeforeUse ==
    \A j \in 1..Len(HandlerActs(last.acts)) :
        (/\ HandlerActs(last.acts)[j].op \in UseOps
         /\ ResolvedBefore(HandlerActs(last.acts), j)) =>
            FocusedBefore(HandlerActs(last.acts), j)

(***************************************************************************)
(* _check_for_dialog under test: an excluded application name and up to    *)
(* MaxDialogWindows windows, each with a title that can or cannot be read  *)
(* and a rectangle that can or cannot be read.                             *)
(***************************************************************************)

MaxDialogWindows == 2

S_SAVE_AS == <<"S", "A", "V", "E", " ", "A", "S">>
S_aba_confirm == S_aba \o <<" ", "C", "o", "n", "f", "i", "r", "m">>
S_ABA == <<"A", "B", "A">>

DialogTitles == {<<>>, S_c, S_save_as, S_SAVE_AS, S_aba_confirm}

\* sizes at and just above the limits of a dialog
DialogSizes ==
    {[x |-> 0, y |-> 0, w |-> MaxDialogWidth, h |-> MaxDialogHeight],
     [x |-> 0, y |-> 0, w |-> MaxDialogWidth + 1, h |-> MaxDialogHeight],
     [x |-> 0, y |-> 0, w |-> MaxDialogWidth, h |-> MaxDialogHeight + 1]}

DialogWindows ==
    {[title |-> t, st |-> st, rect |-> r, rect_ok |-> ok] :
        t \in DialogTitles, st \in {"ok", "title_raises"}, r \in DialogSizes,
        ok \in BOOLEAN}

InitDialog ==
    /\ dg \in {[app |-> a, wins |-> w, done |-> FALSE, out |-> <<>>] :
                a \in {<<>>, S_aba, S_ABA},
                w \in UNION {[1..k -> DialogWindows] : k \in 0..MaxDialogWindows}}
    /\ sc = NoScore
    /\ rs = NoResolve
    /\ lc = NoLocate
    /\ NoDaemon

\* dialog = _check_for_dialog(app_name)
Detect ==
    /\ ~dg.done
    /\ dg' = [dg EXCEPT !.done = TRUE, !.out = DetectDialog(dg.app, dg.wins)]
    /\ UNCHANGED <<sc, rs, lc>>
    /\ UNCHANGED daemonVars

SpecDialog == InitDialog /\ [][Detect]_vars

\* the window has a title that is not empty, that does not contain the
\* excluded name, and that contains a keyword, and is at most 800 wide and
\* 600 high
Flaggable(w) ==
    /\ w.st = "ok"
    /\ w.title # <<>>
    /\ dg.app # <<>> => ~Contains(Lower(dg.app), Lower(w.title))
    /\ w.rect.w <= 800
    /\ w.rect.h <= 600
    /\ \E k \in 1..Len(DialogKeywords) :
            Contains(DialogKeywords[k], Lower(w.title))

FlaggableWindows == {i \in 1..Len(dg.wins) : Flaggable(dg.wins[i])}

\* C31: _check_for_dialog returns the warning for the first enumerated
\* window that has a title, whose title does not contain the excluded
\* name, whose size is at most 800 by 600 and whose title contains a
\* keyword; it returns none when no window is such, and a window that
\* fails one of the four conditions is never flagged
C31_FirstSmallKeywordWindow ==
    dg.done =>
        dg.out = IF FlaggableWindows = {} THEN <<>>
                 ELSE dg.wins[Least(FlaggableWindows)].title

\* C31 holds when the rectangle of every window can be read
C31_WhenSizesAreRead ==
    (\A i \in 1..Len(dg.wins) : dg.wins[i].rect_ok) => C31_FirstSmallKeywordWindow

(***************************************************************************)
(* window resolution within one request                                    *)
(***************************************************************************)

\* the calls of find_window that went past the cache check and ran the
\* window enumeration and the strategies after it
ScansOfWindows(acts) == ActsOf(acts, "find_window", "scan")

\* the calls of the cache refresh of dispatch: those from its cache lookup on
RefreshActs(acts) ==
    SubSeq(acts, Len(HandlerActs(acts)) + 1, Len(acts))

\* C34: within one request the resolution past the cache check runs at most
\* once, and the cache refresh of dispatch runs none when the handler has
\* run one already
C34_ResolveOncePerRequest ==
    /\ Cardinality(ScansOfWindows(last.acts)) <= 1
    /\ ScansOfWindows(HandlerActs(last.acts)) # {}
          => ScansOfWindows(RefreshActs(last.acts)) = {}

\* what holds of C34: a request whose handler found the window in the cache
\* and whose refresh found it there again runs no resolution past the cache
C34_CachedRequestScansNothing ==
    (/\ last.tool = "gui.click"
     /\ ResolvesOf(HandlerActs(last.acts)) # {}
     /\ ScansOfWindows(HandlerActs(last.acts)) = {}
     /\ ActsOf(last.acts, "cache_get", "hit") # {})
        => ScansOfWindows(last.acts) = {}

\* a click found its window in the cache and the refresh hit the cache
C34_CachedRequest ==
    /\ last.tool = "gui.click"
    /\ ResolvesOf(HandlerActs(last.acts)) # {}
    /\ ScansOfWindows(HandlerActs(last.acts)) = {}
    /\ ActsOf(last.acts, "cache_get", "hit") # {}

(***************************************************************************)
(* the _cache command                                                      *)
(***************************************************************************)

\* the step reads a _cache request and answers it
CacheRead == nread' = nread + 1 /\ log'[Len(log) + 1].kind = "cache"

\* the windows the answer of that step reports
CacheReported == out'[Len(out')].result.windows

\* C36: every entry that the _cache command reports is at most 60 seconds
\* old, that is, an entry the cached lookup would not drop as expired
C36_CacheReportIsFresh ==
    [][CacheRead =>
          \A k \in DOMAIN CacheReported :
              /\ k \in DOMAIN cache
              /\ now - cache[k].last_seen <= CacheTtl * 1000]_vars

\* what holds of C36: the _cache command reports the title and the pid of
\* every entry of the cache, whatever its age, and changes no entry
C36_CacheReportIsWholeCache ==
    [][CacheRead =>
          /\ DOMAIN CacheReported = DOMAIN cache
          /\ \A k \in DOMAIN cache :
                CacheReported[k] = [title |-> cache[k].title,
                                    pid |-> cache[k].pid]
          /\ cache' = cache]_vars

\* a _cache request was answered with an entry older than 60 seconds
C36_StaleReported ==
    /\ nread = 2
    /\ log[Len(log) - 1].kind = "cache"
    /\ DOMAIN out[Len(out)].result.windows = {Lower(S_aba_Abb)}
    /\ now - cache[Lower(S_aba_Abb)].last_seen > CacheTtl * 1000

(***************************************************************************)
(* type_text at a target element                                           *)
(***************************************************************************)

\* the last call was a type_text that names an application and a target
TypedAtTarget ==
    /\ last.tool = "gui.type_text"
    /\ last.args.is_object
    /\ last.args.app_name # <<>>
    /\ last.args.target_element # <<>>

\* the clicks of the target among the acts, the text and the keys injected
TargetClicks(acts) == {i \in 1..Len(acts) : acts[i].op \in {"click_input", "click"}}
KeysTyped(acts) == {i \in 1..Len(acts) : acts[i].op \in {"write", "press"}}

\* C37: a type_text with a target element injects the text and the Enter
\* key only after the target was located and clicked; when the target is
\* not clicked nothing is typed and the result does not say typed = true
C37_TypeOnlyAfterTargetClick ==
    TypedAtTarget =>
        /\ \A i \in KeysTyped(last.acts) :
              \E j \in TargetClicks(last.acts) : j < i
        /\ TargetClicks(last.acts) = {} => ~last.result.done

\* what holds of C37: when the target is clicked, the click comes before the
\* text and the Enter key, and the text follows every click
C37_ClickComesFirst ==
    (TypedAtTarget /\ TargetClicks(last.acts) # {}) =>
        /\ \A i \in KeysTyped(last.acts) :
              \A j \in TargetClicks(last.acts) : j < i
        /\ last.result.done => KeysTyped(last.acts) # {}

\* the target was found in no tier and the text was typed all the same
C37_TypedWithoutTarget ==
    /\ TypedAtTarget
    /\ ~last.raised
    /\ TargetClicks(last.acts) = {}
    /\ KeysTyped(last.acts) # {}
    /\ last.result.done

\* the target was clicked and the text typed after it
C37_ClickedThenTyped ==
    /\ TypedAtTarget
    /\ TargetClicks(last.acts) # {}
    /\ KeysTyped(last.acts) # {}
    /\ last.result.done

(***************************************************************************)
(* the click type                                                          *)
(***************************************************************************)

\* the clicks a call of gui.click injected
ClickActs(acts) ==
    {i \in 1..Len(acts) :
        acts[i].op \in {"click", "doubleClick", "rightClick", "click_input"}}

\* the click is the one the click type asks for; click_input() is a single
\* click of the left button
ClickOfType(a, click_type) ==
    CASE click_type = "double" -> a.op = "doubleClick"
      [] click_type = "right" -> a.op = "rightClick"
      [] OTHER -> a.op \in {"click", "click_input"}

\* C38: the click_type of a click request determines the click injected on
\* every path: a double or right click request never gives a single click
\* of the left button
C38_ClickTypeHonoured ==
    (last.tool = "gui.click" /\ last.args.is_object) =>
        \A i \in ClickActs(last.acts) :
            ClickOfType(last.acts[i], last.args.click_type)

\* what holds of C38: every click made by _do_click, that is by som_id, by
\* coordinates and by the coordinate fallback, is of the type requested
C38_DoClickHonoursType ==
    (last.tool = "gui.click" /\ last.args.is_object) =>
        \A i \in ClickActs(last.acts) :
            last.acts[i].op # "click_input"
                => ClickOfType(last.acts[i], last.args.click_type)

\* a double click by som_id and a right click by the coordinate fallback
C38_DoubleBySomId ==
    /\ last.tool = "gui.click"
    /\ last.result.method = "som_id"
    /\ \E i \in ClickActs(last.acts) : last.acts[i].op = "doubleClick"
C38_RightByFallback ==
    /\ last.tool = "gui.click"
    /\ last.args.click_type = "right"
    /\ \E i \in ClickActs(last.acts) : last.acts[i].op = "rightClick"

(***************************************************************************)
(* a wait whose condition holds at the call                                *)
(***************************************************************************)

\* the last call was a wait for a window that find_window resolves on the
\* desktop of the call, no window opening during the call
WaitedForOpenWindow ==
    /\ last.tool = "gui.wait_for"
    /\ last.args.condition = "window_exists"
    /\ last.fx.appears = -1
    /\ FindWindow(last.args.target, <<>>, 0, EnvOf(last.world)).win # None

\* the call returned waited at its first poll, made at the start of the call
WaitedAtOnce ==
    /\ last.result.done
    /\ last.result.error = ""
    /\ Len(PollsOf(last.acts)) = 1
    /\ PollsOf(last.acts)[1].y = 0

\* C39: a wait whose condition holds at the call returns waited = true
\* without sleeping, for every timeout_ms >= 0; waited = false is returned
\* only after the condition was evaluated at least once
C39_WaitSeesHoldingCondition ==
    /\ (WaitedForOpenWindow /\ last.args.timeout_ms >= 0) => WaitedAtOnce
    /\ (last.tool = "gui.wait_for" /\ ~last.raised /\ ~last.result.done)
          => PollsOf(last.acts) # <<>>

\* what holds of C39: with a timeout above 0 the condition is evaluated
\* before the first sleep, and a condition that holds then gives waited =
\* true at once
C39_WaitWithTimeAllowed ==
    last.args.timeout_ms > 0 =>
        /\ WaitedForOpenWindow => WaitedAtOnce
        /\ (last.tool = "gui.wait_for" /\ ~last.raised /\ ~last.result.done)
              => PollsOf(last.acts) # <<>>

\* a wait of 600 ms for a window that is open returned at once
C39_ReturnedAtOnce ==
    /\ WaitedForOpenWindow
    /\ last.args.timeout_ms = 600
    /\ WaitedAtOnce

\* a wait of 0 ms for a window that is open timed out without a poll
C39_ZeroTimeout ==
    /\ WaitedForOpenWindow
    /\ last.args.timeout_ms = 0
    /\ ~last.result.done
    /\ last.result.error = "timeout"
    /\ PollsOf(last.acts) = <<>>

=============================================================================
